---- MODULE Spec2Model ----
(***************************************************************************)
(* Model of the acquisition-and-health core of the AirGradient firmware:   *)
(* the sensor task (SensorManager with the SGP41, PMS5003T and S8          *)
(* drivers), the single-slot snapshot store, the metrics handlers that     *)
(* read it, and the watchdog task that gates the TPL5010 kick pulse.       *)
(*                                                                         *)
(* Time is the embassy clock in milliseconds.  Tasks are cooperative: a    *)
(* task runs from one await to the next without interleaving, so an action *)
(* of a task is enabled only while every other task is suspended.          *)
(* f32 temperature / humidity values are held in tenths (the PMS5003T raw  *)
(* unit); the tick conversions computed on tenths with integer arithmetic  *)
(* agree with the f32 computation on the whole raw range.                  *)
(***************************************************************************)
EXTENDS Integers, Sequences, FiniteSets, TLC

(***************************************************************************)
(* Bounds of the exploration.                                              *)
(***************************************************************************)
\* Spec: seconds of clock time explored, acquisition cycles completed
MaxSecs == 60
MaxCycles == 2
\* SpecWd: watchdog ticks explored, acquisition cycles completed
MaxWdTicks == 6
MaxWdCycles == 2
\* SpecWdFair: watchdog ticks explored
MaxBlockTicks == 5

(***************************************************************************)
(* Program constants.                                                      *)
(***************************************************************************)
tick_interval == 60 * 1000
wifi_timeout == 300 * 1000
sensor_timeout == 120 * 1000
metric_scrape_timeout == 900 * 1000
kick_duration_ms == 25
polling_interval == 2 * 1000
WEB_TASK_POOL_SIZE == 2

CRC_POLYNOMIAL == 49
CRC_INIT == 255
CMD_MEASURE_RAW == <<38, 25>>
CMD_SELF_TEST == <<40, 14>>
CMD_HEATER_OFF == <<54, 21>>
DEFAULT_RH_TICKS == 32768
DEFAULT_TEMP_TICKS == 26214
MEASURE_DELAY_MS == 50
SELF_TEST_DELAY_MS == 320
CONDITIONING_DELAY_MS == 10000
SELF_TEST_OK == 54272

FRAME_START_1 == 66
FRAME_START_2 == 77
EXPECTED_FRAME_LEN == 28
DATA_PAYLOAD_LEN == 26
MAX_SYNC_ATTEMPTS == 2048

MODBUS_ADDR_ANY == 254
MODBUS_FUNC_READ_INPUT == 4
RESPONSE_BYTE_COUNT == 2
MODBUS_IR4_CO2_HIGH == 0
MODBUS_IR4_CO2_LOW == 3
MODBUS_READ_LEN_HIGH == 0
MODBUS_READ_LEN_LOW == 1

(***************************************************************************)
(* Bit and byte helpers.                                                   *)
(***************************************************************************)
Min(a, b) == IF a <= b THEN a ELSE b

\* bitwise exclusive or of two bytes
XorBit(a, b, p) == (((a \div p) + (b \div p)) % 2) * p
Xor8(a, b) ==
    XorBit(a, b, 1) + XorBit(a, b, 2) + XorBit(a, b, 4) + XorBit(a, b, 8)
    + XorBit(a, b, 16) + XorBit(a, b, 32) + XorBit(a, b, 64) + XorBit(a, b, 128)
XorOf[a \in 0..65535, b \in 0..65535, bits \in {8, 16}] ==
    IF bits = 8 THEN Xor8(a, b)
    ELSE Xor8(a % 256, b % 256) + 256 * Xor8(a \div 256, b \div 256)
\* the operands are evaluated once, then combined
Xor(a, b, bits) == XorOf[a, b, bits]

to_be_bytes(w) == <<w \div 256, w % 256>>
from_be_bytes(hi, lo) == hi * 256 + lo

Crc8Shift(crc) ==
    IF crc >= 128 THEN Xor((crc * 2) % 256, CRC_POLYNOMIAL, 8)
    ELSE (crc * 2) % 256

\* the inner loop: k more shifts of the running crc
Crc8Bits[crc \in 0..255, k \in 0..8] ==
    IF k = 0 THEN crc ELSE Crc8Bits[Crc8Shift(crc), k - 1]

Crc8Byte(crc, byte) == Crc8Bits[Xor(crc, byte, 8), 8]

\* the running crc after the first n bytes of data
crc8_upto[data \in Seq(0..255), n \in 0..32] ==
    IF n = 0 THEN CRC_INIT ELSE Crc8Byte(crc8_upto[data, n - 1], data[n])

crc8(data) == crc8_upto[data, Len(data)]

Crc16ShiftPlain(crc) == crc \div 2
Crc16Shift(crc) ==
    IF crc % 2 = 1 THEN Xor(crc \div 2, 40961, 16) ELSE crc \div 2

Crc16Bits[crc \in 0..65535, k \in 0..8] ==
    IF k = 0 THEN crc ELSE Crc16Bits[Crc16Shift(crc), k - 1]

Crc16Byte(crc, byte) == Crc16Bits[Xor(crc, byte, 16), 8]

crc16_upto[data \in Seq(0..255), n \in 0..32] ==
    IF n = 0 THEN 65535 ELSE Crc16Byte(crc16_upto[data, n - 1], data[n])

crc16_modbus(data) == crc16_upto[data, Len(data)]

(***************************************************************************)
(* SGP41 pure functions.                                                   *)
(***************************************************************************)
Clamp(x, lo, hi) == IF x < lo THEN lo ELSE IF x > hi THEN hi ELSE x

\* humidity in tenths of %RH
humidity_to_ticks_rounded(humidity) ==
    (Clamp(humidity, 0, 1000) * 65535 + 500) \div 1000
humidity_to_ticks(humidity) == (Clamp(humidity, 0, 1000) * 65535) \div 1000

\* temperature in tenths of a degree Celsius
temperature_to_ticks(temp) == ((Clamp(temp, -450, 1300) + 450) * 65535) \div 1750

validate_crc(data, expected_crc) == crc8(data) = expected_crc

NoneF == [some |-> FALSE, v |-> 0]
SomeF(x) == [some |-> TRUE, v |-> x]

\* the 8 bytes measure_internal puts on the I2C bus
MeasureBuffer(humidity, temp) ==
    LET rh_ticks == IF humidity.some THEN humidity_to_ticks(humidity.v)
                    ELSE DEFAULT_RH_TICKS
        t_ticks == IF temp.some THEN temperature_to_ticks(temp.v)
                   ELSE DEFAULT_TEMP_TICKS
        rh_bytes == to_be_bytes(rh_ticks)
        t_bytes == to_be_bytes(t_ticks)
    IN  CMD_MEASURE_RAW \o rh_bytes \o <<crc8(rh_bytes)>>
                        \o t_bytes \o <<crc8(t_bytes)>>

Sgp41Error(kind, code) == [kind |-> kind, code |-> code]
NoSgpError == Sgp41Error("None", 0)

\* outcome of decoding the 6-byte measurement response
MeasureDecodeFirstWordOnly(read_buf) ==
    IF ~validate_crc(SubSeq(read_buf, 1, 2), read_buf[3])
        THEN [ok |-> FALSE, err |-> Sgp41Error("CrcError", 0), voc_raw |-> 0, nox_raw |-> 0]
    ELSE [ok |-> TRUE, err |-> NoSgpError,
          voc_raw |-> from_be_bytes(read_buf[1], read_buf[2]),
          nox_raw |-> from_be_bytes(read_buf[4], read_buf[5])]
MeasureDecode(read_buf) ==
    IF ~validate_crc(SubSeq(read_buf, 1, 2), read_buf[3])
        THEN [ok |-> FALSE, err |-> Sgp41Error("CrcError", 0), voc_raw |-> 0, nox_raw |-> 0]
    ELSE IF ~validate_crc(SubSeq(read_buf, 4, 5), read_buf[6])
        THEN [ok |-> FALSE, err |-> Sgp41Error("CrcError", 0), voc_raw |-> 0, nox_raw |-> 0]
    ELSE [ok |-> TRUE, err |-> NoSgpError,
          voc_raw |-> from_be_bytes(read_buf[1], read_buf[2]),
          nox_raw |-> from_be_bytes(read_buf[4], read_buf[5])]

\* outcome of decoding the 3-byte self-test response
SelfTestDecodeResultFirst(read_buf) ==
    IF from_be_bytes(read_buf[1], read_buf[2]) # SELF_TEST_OK
        THEN Sgp41Error("SelfTestFailed", from_be_bytes(read_buf[1], read_buf[2]))
    ELSE IF ~validate_crc(SubSeq(read_buf, 1, 2), read_buf[3])
        THEN Sgp41Error("CrcError", 0)
    ELSE NoSgpError
SelfTestDecode(read_buf) ==
    IF ~validate_crc(SubSeq(read_buf, 1, 2), read_buf[3])
        THEN Sgp41Error("CrcError", 0)
    ELSE IF from_be_bytes(read_buf[1], read_buf[2]) = SELF_TEST_OK
        THEN NoSgpError
    ELSE Sgp41Error("SelfTestFailed", from_be_bytes(read_buf[1], read_buf[2]))

(***************************************************************************)
(* S8 pure functions.                                                      *)
(***************************************************************************)
validate_response_crc_first(buf) ==
    IF crc16_modbus(SubSeq(buf, 1, 5)) # buf[7] * 256 + buf[6]
        THEN "ChecksumError"
    ELSE IF buf[1] # MODBUS_ADDR_ANY \/ buf[2] # MODBUS_FUNC_READ_INPUT
         \/ buf[3] # RESPONSE_BYTE_COUNT
        THEN "InvalidHeader"
    ELSE "None"

validate_response(buf) ==
    IF buf[1] # MODBUS_ADDR_ANY \/ buf[2] # MODBUS_FUNC_READ_INPUT
         \/ buf[3] # RESPONSE_BYTE_COUNT
        THEN "InvalidHeader"
    ELSE IF crc16_modbus(SubSeq(buf, 1, 5)) # buf[7] * 256 + buf[6]
        THEN "ChecksumError"
    ELSE "None"

(***************************************************************************)
(* Inputs: what the transports deliver.                                    *)
(***************************************************************************)
WithCrc8(hi, lo) == <<hi, lo, crc8(<<hi, lo>>)>>

SelfTestResponses ==
    { WithCrc8(212, 0), <<212, 0, 0>>, WithCrc8(75, 0) }

MeasureResponses ==
    { WithCrc8(120, 5) \o WithCrc8(60, 7),
      <<120, 5, 0>> \o WithCrc8(60, 7),
      WithCrc8(120, 5) \o <<60, 7, 0>> }

S8Frame(b0, hi, lo) ==
    LET body == <<b0, MODBUS_FUNC_READ_INPUT, RESPONSE_BYTE_COUNT, hi, lo>>
        crc == crc16_modbus(body)
    IN  body \o <<crc % 256, crc \div 256>>

S8Responses ==
    { S8Frame(MODBUS_ADDR_ANY, 1, 144),
      S8Frame(1, 1, 144),
      <<MODBUS_ADDR_ANY, MODBUS_FUNC_READ_INPUT, RESPONSE_BYTE_COUNT, 1, 144, 0, 0>> }

\* what Pms5003t::read can hand to the manager
PmsReadings ==
    { [pm1_ae |-> 3, pm25_ae |-> 5, pm10_ae |-> 7, pm03_count |-> 11,
       pm05_count |-> 13, pm10_count |-> 17, pm25_count |-> 19,
       temp |-> 215, humidity |-> 437] }

NoPmsData ==
    [pm1_ae |-> 0, pm25_ae |-> 0, pm10_ae |-> 0, pm03_count |-> 0,
     pm05_count |-> 0, pm10_count |-> 0, pm25_count |-> 0,
     temp |-> 0, humidity |-> 0]

PmsResults ==
    { [ok |-> TRUE, val |-> r, err |-> "None"] : r \in PmsReadings }
      \cup { [ok |-> FALSE, val |-> NoPmsData, err |-> "MaxAttemptsExceeded"] }

\* what GasIndexAlgorithm::process can return (external crate)
VocIndexValues == {101}
NoxIndexValues == {2}

SensorTimerPcs == {"st_delay", "cond_delay", "settle", "gas_delay", "poll_timer"}
SensorIoPcs == {"st_write", "st_read", "cond_write", "cond_read", "pms_read",
                "gas_write", "gas_read", "s8_write", "s8_read"}

(***************************************************************************)
(* Environments.  FullEnv lets every transport operation fail, deliver any *)
(* of the responses above and take any time.  QuietEnv is the environment  *)
(* of the watchdog exploration: the transports work, and only the PM line  *)
(* may stay silent for any time (or forever), so that snapshots are        *)
(* published at arbitrary instants over a longer run of watchdog ticks.    *)
(***************************************************************************)
FullEnv ==
    [io |-> BOOLEAN, self_test |-> SelfTestResponses,
     measure |-> MeasureResponses, s8 |-> S8Responses, pms |-> PmsResults,
     stall |-> SensorIoPcs, ticks |-> MaxSecs,
     horizon |-> (900 + MaxSecs) * 1000,
     cycles |-> MaxCycles, spawn |-> {900 * 1000}]

QuietEnv ==
    [io |-> {TRUE}, self_test |-> {WithCrc8(212, 0)},
     measure |-> {WithCrc8(120, 5) \o WithCrc8(60, 7)},
     s8 |-> {S8Frame(MODBUS_ADDR_ANY, 1, 144)},
     pms |-> {r \in PmsResults : r.ok},
     stall |-> {"pms_read"}, ticks |-> MaxWdTicks,
     horizon |-> (600 + 60 * MaxWdTicks) * 1000,
     cycles |-> MaxWdCycles, spawn |-> {0, 600 * 1000}]

\* FullEnv with transports that complete before the next timer expires; the
\* responses are those of FullEnv, written out byte by byte
LiveEnv ==
    [io |-> BOOLEAN,
     self_test |-> { <<212, 0, 198>>, <<212, 0, 0>>, <<75, 0, 18>> },
     measure |-> { <<120, 5, 120, 60, 7, 16>>, <<120, 5, 0, 60, 7, 16>>,
                   <<120, 5, 120, 60, 7, 0>> },
     s8 |-> { <<254, 4, 2, 1, 144, 172, 216>>, <<1, 4, 2, 1, 144, 184, 204>>,
              <<254, 4, 2, 1, 144, 0, 0>> },
     pms |-> PmsResults,
     stall |-> {}, ticks |-> MaxSecs,
     horizon |-> (900 + MaxSecs) * 1000,
     cycles |-> MaxCycles, spawn |-> {900 * 1000}]

\* QuietEnv from power-on, its responses written out byte by byte
BlockEnv ==
    [io |-> {TRUE}, self_test |-> { <<212, 0, 198>> },
     measure |-> { <<120, 5, 120, 60, 7, 16>> },
     s8 |-> { <<254, 4, 2, 1, 144, 172, 216>> },
     pms |-> {r \in PmsResults : r.ok},
     stall |-> {"pms_read"}, ticks |-> MaxBlockTicks,
     horizon |-> 60 * MaxBlockTicks * 1000,
     cycles |-> MaxWdCycles, spawn |-> {0}]

(***************************************************************************)
(* The snapshot.                                                           *)
(***************************************************************************)
NoErrors == [present |-> FALSE, pms |-> "None", sgp |-> NoSgpError, s8 |-> "None"]

\* SensorData::default()
DefaultSensorData(t) ==
    [pm1 |-> 0, pm25 |-> 0, pm10 |-> 0, pm03_count |-> 0, pm05_count |-> 0,
     pm10_count |-> 0, pm25_count |-> 0, co2 |-> 0, voc |-> 0, nox |-> 0,
     temp |-> 0, humidity |-> 0, initialized |-> FALSE, errors |-> NoErrors,
     last_updated |-> t]

WebTasks == 1..WEB_TASK_POOL_SIZE

\* who holds the MutexGuard of the snapshot
Holder(task, id) == [task |-> task, id |-> id]
NoHolder == Holder("none", 0)
SensorHolder == Holder("sensor", 0)
WatchdogHolder == Holder("watchdog", 0)
WebHolder(i) == Holder("web", i)

VARIABLES
    now,                \* the monotonic clock (Instant::now), ms
    linkUp, configUp,   \* stack.is_link_up(), stack.is_config_up()
    store,              \* the SensorData inside the shared Mutex
    lockHolder,         \* the task holding the snapshot lock, or NoHolder
    last_scrape_secs,   \* the AtomicU32 shared by metrics handler and watchdog
    \* watchdog task
    wdPc, wdExpires, last_wifi_ok, wdNow, healthy, sensor_last_updated,
    last_scrape, pin,
    wdTicks, tickUp, pulses, highAt, pulseWidth,
    \* web tasks / metrics handler
    webPc, mNow, sensor_data,
    \* sensor task: manager and drivers
    sPc, sDeadline, sgp, data, error_flags, has_error,
    pmsRes, sgpRes, s8Res, initResult,
    cycles, pmsCalls, sgpCalls, s8Calls, cyclePubs,
    callWrites, callReads, i2cLastWrite, gasArgs, published,
    \* what Sgp41::init has done so far, in order
    initLog,
    \* a driver called on its own, on a transport that delivers a given input
    drvPc, uart, rxPos, rxCount, attempts, lastTry, pmsOut,
    s8In, tx, s8Out, crcIn, crcOut,
    \* the gas driver called on its own: its fields, and its last call
    gas, gasLog,
    \* the tick conversions applied to given inputs
    ticksIn, ticksOut

wdVars == <<wdPc, wdExpires, last_wifi_ok, wdNow, healthy, sensor_last_updated,
            last_scrape, pin, wdTicks, tickUp, pulses, highAt, pulseWidth>>
webVars == <<webPc, mNow, sensor_data>>
sensorVars == <<sPc, sDeadline, sgp, data, error_flags, has_error,
                pmsRes, sgpRes, s8Res, initResult,
                cycles, pmsCalls, sgpCalls, s8Calls, cyclePubs,
                callWrites, callReads, i2cLastWrite, gasArgs, published>>
netVars == <<linkUp, configUp>>
driverVars == <<drvPc, uart, rxPos, rxCount, attempts, lastTry, pmsOut,
                s8In, tx, s8Out, crcIn, crcOut, gas, gasLog, ticksIn, ticksOut>>
vars == <<now, netVars, store, lockHolder, last_scrape_secs,
          wdVars, webVars, sensorVars, initLog, driverVars>>


(***************************************************************************)
(* Initial state: the tasks have just been spawned.  The sensor task is    *)
(* inside manager.init() -> sgp.init() -> self_test(), awaiting the I2C    *)
(* write of the self-test command; the watchdog has driven the pin low,    *)
(* created its ticker and awaits the first tick.  main spawns them when    *)
(* start_wifi returns, that is with link and config up, at a clock value   *)
(* that depends on how long the network took to come up.                  *)
(***************************************************************************)
NoPmsRes == [done |-> FALSE, ok |-> FALSE, val |-> NoPmsData, err |-> "None"]
NoSgpRes == [done |-> FALSE, ok |-> FALSE, voc |-> 0, nox |-> 0, err |-> NoSgpError]
NoS8Res == [done |-> FALSE, ok |-> FALSE, co2 |-> 0, err |-> "None"]
NoErrorFlags == [pms |-> "None", sgp |-> NoSgpError, s8 |-> "None"]

\* a metrics handler that is not running has no local copy
NoCopy == DefaultSensorData(0)

\* no driver is being called on its own
NoTry == [ok |-> FALSE, val |-> NoPmsData, err |-> "None", used |-> 0]
NoStream == [head |-> << >>, loop |-> <<0>>, faults |-> 0]
NoS8In == [write_ok |-> TRUE, read_ok |-> TRUE, buf |-> <<0, 0, 0, 0, 0, 0, 0>>]
\* Sgp41::new: not initialized, both algorithm states fresh
NewSgp41 == [initialized |-> FALSE, voc_algorithm |-> 0, nox_algorithm |-> 0]
NoGasCall == [n |-> 0, op |-> "none", err |-> NoSgpError, humidity |-> NoneF,
              temp |-> NoneF, tx |-> << >>, rx |-> << >>,
              before |-> NewSgp41]
DriverIdle ==
    /\ drvPc = "off"
    /\ uart = NoStream
    /\ rxPos = 1
    /\ rxCount = 0
    /\ attempts = 0
    /\ lastTry = NoTry
    /\ pmsOut = NoPmsRes
    /\ s8In = NoS8In
    /\ tx = << >>
    /\ s8Out = NoS8Res
    /\ crcIn = << >>
    /\ crcOut = [crc8 |-> 0, crc16 |-> 0]
    /\ gas = NewSgp41
    /\ gasLog = NoGasCall
    /\ ticksIn = [humidity |-> 0, temp |-> 0]
    /\ ticksOut = [humidity |-> 0, temp |-> 0]

\* the firmware's tasks as main has spawned them
Spawned(env) ==
    /\ now \in env.spawn
    /\ linkUp = TRUE
    /\ configUp = TRUE
    /\ store = DefaultSensorData(now)
    /\ lockHolder = NoHolder
    /\ last_scrape_secs = 0
    /\ wdPc = "ticker"
    /\ wdExpires = now + tick_interval
    /\ last_wifi_ok = now
    /\ wdNow = 0
    /\ healthy = TRUE
    /\ sensor_last_updated = 0
    /\ last_scrape = 0
    /\ pin = "low"
    /\ wdTicks = 0
    /\ tickUp = FALSE
    /\ pulses = 0
    /\ highAt = 0
    /\ pulseWidth = 0
    /\ webPc = [i \in WebTasks |-> "idle"]
    /\ mNow = [i \in WebTasks |-> 0]
    /\ sensor_data = [i \in WebTasks |-> NoCopy]
    /\ sPc = "st_write"
    /\ sDeadline = 0
    /\ sgp = [initialized |-> FALSE, voc_algorithm |-> 0, nox_algorithm |-> 0]
    /\ data = DefaultSensorData(now)
    /\ error_flags = NoErrorFlags
    /\ has_error = FALSE
    /\ pmsRes = NoPmsRes
    /\ sgpRes = NoSgpRes
    /\ s8Res = NoS8Res
    /\ initResult = Sgp41Error("Pending", 0)
    /\ cycles = 0
    /\ pmsCalls = 0
    /\ sgpCalls = 0
    /\ s8Calls = 0
    /\ cyclePubs = 0
    /\ callWrites = 0
    /\ callReads = 0
    /\ i2cLastWrite = <<>>
    /\ gasArgs = [humidity |-> NoneF, temp |-> NoneF]
    /\ published = DefaultSensorData(now)
    /\ initLog = << >>

InitIn(env) == Spawned(env) /\ DriverIdle

(***************************************************************************)
(* Cooperative scheduling: where each task is suspended.                   *)
(***************************************************************************)
SensorAwaitPcs == SensorTimerPcs \cup SensorIoPcs

SensorSuspended ==
    sPc \in SensorAwaitPcs \/ (sPc = "update_lock" /\ lockHolder # NoHolder)
WdSuspendedInDelay ==
    wdPc \in {"ticker", "delay"} \/ (wdPc = "lock" /\ lockHolder # NoHolder)
WdSuspended ==
    wdPc = "ticker" \/ (wdPc = "lock" /\ lockHolder # NoHolder)
WebSuspended(i) == webPc[i] = "idle"

CanRunSensor == WdSuspended /\ \A i \in WebTasks : WebSuspended(i)
CanRunWd == SensorSuspended /\ \A i \in WebTasks : WebSuspended(i)
CanRunWeb(i) ==
    SensorSuspended /\ WdSuspended /\ \A j \in WebTasks \ {i} : WebSuspended(j)
AllSuspended == SensorSuspended /\ WdSuspended /\ \A i \in WebTasks : WebSuspended(i)

(***************************************************************************)
(* Environment: the clock and the network stack.                           *)
(***************************************************************************)
NextDeadline ==
    IF sPc \in SensorTimerPcs THEN Min(wdExpires, sDeadline) ELSE wdExpires

\* time passes until the next timer expires (within the explored horizon);
\* a transport operation outside env.stall completes before any timer does,
\* except the one left pending when the explored cycles are used up
Advance(env) ==
    /\ AllSuspended
    /\ wdTicks < env.ticks
    /\ NextDeadline <= env.horizon
    /\ sPc \in SensorIoPcs => (sPc \in env.stall \/ cycles >= env.cycles)
    /\ NextDeadline > now
    /\ now' = NextDeadline
    /\ UNCHANGED <<netVars, store, lockHolder, last_scrape_secs, wdVars,
                   webVars, sensorVars>>
    /\ UNCHANGED <<initLog, driverVars>>

NetChange ==
    /\ AllSuspended
    /\ \E l \in BOOLEAN, c \in BOOLEAN :
        /\ <<l, c>> # <<linkUp, configUp>>
        /\ linkUp' = l
        /\ configUp' = c
    /\ UNCHANGED <<now, store, lockHolder, last_scrape_secs, wdVars,
                   webVars, sensorVars>>
    /\ UNCHANGED <<initLog, driverVars>>

(***************************************************************************)
(* Watchdog task.                                                          *)
(***************************************************************************)
\* Instant::duration_since
DurationSince(later, earlier) == later - earlier

\* Instant::from_secs
FromSecs(secs) == secs * 1000

WifiUp(l, c) == l /\ c

WifiStaleWhileUp(n, up, lwo) == DurationSince(n, lwo) > wifi_timeout
WifiStale(n, up, lwo) == ~up /\ DurationSince(n, lwo) > wifi_timeout

SensorsStaleGe(n, lu) == DurationSince(n, lu) >= sensor_timeout
SensorsStale(n, lu) == DurationSince(n, lu) > sensor_timeout

ScrapeStale(n, ls) == DurationSince(n, FromSecs(ls)) > metric_scrape_timeout

\* `healthy = false` in a failing check, otherwise healthy is left alone
LastCheckWins(h, stale) == ~stale
Unhealthy(h, stale) == IF stale THEN FALSE ELSE h

\* ticker.next() returns; `now` is read and the WiFi check runs
WdTick ==
    /\ wdPc = "ticker"
    /\ CanRunWd
    /\ now >= wdExpires
    /\ wdExpires' = wdExpires + tick_interval
    /\ wdNow' = now
    /\ tickUp' = WifiUp(linkUp, configUp)
    /\ last_wifi_ok' = IF WifiUp(linkUp, configUp) THEN now ELSE last_wifi_ok
    /\ healthy' = Unhealthy(TRUE, WifiStale(now, WifiUp(linkUp, configUp), last_wifi_ok))
    /\ wdTicks' = wdTicks + 1
    /\ pulses' = 0
    /\ wdPc' = "lock"
    /\ UNCHANGED <<now, netVars, store, lockHolder, last_scrape_secs,
                   sensor_last_updated, last_scrape, pin, highAt, pulseWidth,
                   webVars, sensorVars>>
    /\ UNCHANGED <<initLog, driverVars>>

\* sensors.lock().await
WdLock ==
    /\ wdPc = "lock"
    /\ CanRunWd
    /\ lockHolder = NoHolder
    /\ lockHolder' = WatchdogHolder
    /\ wdPc' = "read"
    /\ UNCHANGED <<now, netVars, store, last_scrape_secs, wdExpires,
                   last_wifi_ok, wdNow, healthy, sensor_last_updated,
                   last_scrape, pin, wdTicks, tickUp, pulses, highAt,
                   pulseWidth, webVars, sensorVars>>
    /\ UNCHANGED <<initLog, driverVars>>

\* .last_updated is copied, the guard dropped, then the sensor and scrape checks
WdRead ==
    /\ wdPc = "read"
    /\ CanRunWd
    /\ sensor_last_updated' = store.last_updated
    /\ lockHolder' = NoHolder
    /\ last_scrape' = last_scrape_secs
    /\ healthy' = Unhealthy(Unhealthy(healthy,
                                      SensorsStale(wdNow, store.last_updated)),
                            ScrapeStale(wdNow, last_scrape_secs))
    /\ wdPc' = "decide"
    /\ UNCHANGED <<now, netVars, store, last_scrape_secs, wdExpires,
                   last_wifi_ok, wdNow, pin, wdTicks, tickUp, pulses, highAt,
                   pulseWidth, webVars, sensorVars>>
    /\ UNCHANGED <<initLog, driverVars>>

\* healthy: watchdog_pin.set_high()
WdSetHigh ==
    /\ wdPc = "decide"
    /\ CanRunWd
    /\ healthy
    /\ pin' = "high"
    /\ pulses' = pulses + 1
    /\ highAt' = now
    /\ wdPc' = "delay"
    /\ UNCHANGED <<now, netVars, store, lockHolder, last_scrape_secs,
                   wdExpires, last_wifi_ok, wdNow, healthy,
                   sensor_last_updated, last_scrape, wdTicks, tickUp,
                   pulseWidth, webVars, sensorVars>>
    /\ UNCHANGED <<initLog, driverVars>>

\* unhealthy: the kick is skipped
WdSkip ==
    /\ wdPc = "decide"
    /\ CanRunWd
    /\ ~healthy
    /\ wdPc' = "end"
    /\ UNCHANGED <<now, netVars, store, lockHolder, last_scrape_secs,
                   wdExpires, last_wifi_ok, wdNow, healthy,
                   sensor_last_updated, last_scrape, pin, wdTicks, tickUp,
                   pulses, highAt, pulseWidth, webVars, sensorVars>>
    /\ UNCHANGED <<initLog, driverVars>>

\* delay.delay_millis(kick_duration_ms): a blocking busy-wait
WdDelay ==
    /\ wdPc = "delay"
    /\ CanRunWd
    /\ now' = now + kick_duration_ms
    /\ wdPc' = "set_low"
    /\ UNCHANGED <<netVars, store, lockHolder, last_scrape_secs, wdExpires,
                   last_wifi_ok, wdNow, healthy, sensor_last_updated,
                   last_scrape, pin, wdTicks, tickUp, pulses, highAt,
                   pulseWidth, webVars, sensorVars>>
    /\ UNCHANGED <<initLog, driverVars>>

\* watchdog_pin.set_low()
WdSetLow ==
    /\ wdPc = "set_low"
    /\ CanRunWd
    /\ pin' = "low"
    /\ pulseWidth' = now - highAt
    /\ wdPc' = "end"
    /\ UNCHANGED <<now, netVars, store, lockHolder, last_scrape_secs,
                   wdExpires, last_wifi_ok, wdNow, healthy,
                   sensor_last_updated, last_scrape, wdTicks, tickUp, pulses,
                   highAt, webVars, sensorVars>>
    /\ UNCHANGED <<initLog, driverVars>>

\* the loop body ends: its locals go out of scope, ticker.next() is awaited
WdLoop ==
    /\ wdPc = "end"
    /\ CanRunWd
    /\ wdPc' = "ticker"
    /\ wdNow' = 0
    /\ healthy' = TRUE
    /\ sensor_last_updated' = 0
    /\ last_scrape' = 0
    /\ tickUp' = FALSE
    /\ pulses' = 0
    /\ highAt' = 0
    /\ pulseWidth' = 0
    /\ UNCHANGED <<now, netVars, store, lockHolder, last_scrape_secs,
                   wdExpires, last_wifi_ok, pin, wdTicks, webVars, sensorVars>>
    /\ UNCHANGED <<initLog, driverVars>>

(***************************************************************************)
(* Metrics handler, run by each web task.                                  *)
(***************************************************************************)
\* a GET /metrics arrives: `now` is read and the lock is taken
MetricsRequest(i) ==
    /\ webPc[i] = "idle"
    /\ CanRunWeb(i)
    /\ lockHolder = NoHolder
    /\ mNow' = [mNow EXCEPT ![i] = now]
    /\ lockHolder' = WebHolder(i)
    /\ webPc' = [webPc EXCEPT ![i] = "copy"]
    /\ UNCHANGED <<now, netVars, store, last_scrape_secs, wdVars,
                   sensor_data, sensorVars>>
    /\ UNCHANGED <<initLog, driverVars>>

\* lock.clone(), the guard is dropped at the end of the block
MetricsCopy(i) ==
    /\ webPc[i] = "copy"
    /\ CanRunWeb(i)
    /\ sensor_data' = [sensor_data EXCEPT ![i] = store]
    /\ lockHolder' = NoHolder
    /\ webPc' = [webPc EXCEPT ![i] = "respond"]
    /\ UNCHANGED <<now, netVars, store, last_scrape_secs, wdVars, mNow,
                   sensorVars>>
    /\ UNCHANGED <<initLog, driverVars>>

\* 503 while initializing; otherwise the text is built and the scrape stamped
\* (now_secs as u32 keeps its value: the clock stays far below 2^32 seconds)
MetricsRespondAlways(i) ==
    /\ webPc[i] = "respond"
    /\ CanRunWeb(i)
    /\ last_scrape_secs' = mNow[i] \div 1000
    /\ webPc' = [webPc EXCEPT ![i] = "idle"]
    /\ mNow' = [mNow EXCEPT ![i] = 0]
    /\ sensor_data' = [sensor_data EXCEPT ![i] = NoCopy]
    /\ UNCHANGED <<now, netVars, store, lockHolder, wdVars, sensorVars>>
    /\ UNCHANGED <<initLog, driverVars>>
MetricsRespond(i) ==
    /\ webPc[i] = "respond"
    /\ CanRunWeb(i)
    /\ last_scrape_secs' = IF sensor_data[i].initialized
                           THEN mNow[i] \div 1000
                           ELSE last_scrape_secs
    /\ webPc' = [webPc EXCEPT ![i] = "idle"]
    /\ mNow' = [mNow EXCEPT ![i] = 0]
    /\ sensor_data' = [sensor_data EXCEPT ![i] = NoCopy]
    /\ UNCHANGED <<now, netVars, store, lockHolder, wdVars, sensorVars>>
    /\ UNCHANGED <<initLog, driverVars>>

(***************************************************************************)
(* Sensor task: SensorManager::read_all building blocks.                   *)
(***************************************************************************)
\* read_all starts from SensorData::default(), never from the previous data
CarriedData(prev, t) == [prev EXCEPT !.last_updated = t]
FreshData(prev, t) == DefaultSensorData(t)

\* a PM error is recorded and the cycle goes on with the gas line
ReturnOnPmsError(r) == IF r.ok THEN "sgp" ELSE "return"
NextLineAfterPms(r) == "sgp"

\* Sgp41::measure: the Ready gate in front of measure_internal
measure_unchecked(initialized) == "measure_internal"
measure(initialized) ==
    IF ~initialized THEN "NotInitialized" ELSE "measure_internal"

\* the compensation arguments read_all hands to measure_indices
ManagerGasArgs(d) == [humidity |-> SomeF(d.humidity), temp |-> SomeF(d.temp)]

\* data.errors = Some(error_flags) only if has_error
ErrorsAlways(h, f) ==
    [present |-> TRUE, pms |-> f.pms, sgp |-> f.sgp, s8 |-> f.s8]
ErrorsField(h, f) ==
    IF h THEN [present |-> TRUE, pms |-> f.pms, sgp |-> f.sgp, s8 |-> f.s8]
    ELSE NoErrors

\* Sgp41::is_initialized, copied into the snapshot
InitializedWhenGasOk(driver, f) == f.sgp = NoSgpError
is_initialized(driver, f) == driver.initialized

\* `*inner = data` in SharedSensorData::update
AssignKeepCo2(inner, d) == [d EXCEPT !.co2 = IF d.co2 = 0 THEN inner.co2 ELSE d.co2]
Assign(inner, d) == d

\* the MutexGuard of update() is dropped when update() returns
GuardKept(holder) == holder
GuardDropped(holder) == NoHolder

\* a cycle begins: read_all creates its locals and awaits pms.read()
BeginCycleGasFirst ==
    /\ data' = FreshData(data, now)
    /\ error_flags' = NoErrorFlags
    /\ has_error' = FALSE
    /\ pmsRes' = NoPmsRes
    /\ sgpRes' = NoSgpRes
    /\ s8Res' = NoS8Res
    /\ pmsCalls' = 0
    /\ sgpCalls' = 1
    /\ s8Calls' = 0
    /\ cyclePubs' = 0
    /\ sPc' = "gas_write"
BeginCycle ==
    /\ data' = FreshData(data, now)
    /\ error_flags' = NoErrorFlags
    /\ has_error' = FALSE
    /\ pmsRes' = NoPmsRes
    /\ sgpRes' = NoSgpRes
    /\ s8Res' = NoS8Res
    /\ pmsCalls' = 1
    /\ sgpCalls' = 0
    /\ s8Calls' = 0
    /\ cyclePubs' = 0
    /\ sPc' = "pms_read"

\* the tail of read_all and the flag assignment of read_and_update
FinishCycleKeepStamp(d, f, h) ==
    /\ data' = [d EXCEPT !.errors = ErrorsField(h, f),
                         !.initialized = is_initialized(sgp, f)]
    /\ error_flags' = f
    /\ has_error' = h
    /\ sPc' = "update_lock"
FinishCycleStampOnSuccess(d, f, h) ==
    /\ data' = [d EXCEPT !.errors = ErrorsField(h, f),
                         !.initialized = is_initialized(sgp, f),
                         !.last_updated = IF h THEN @ ELSE now]
    /\ error_flags' = f
    /\ has_error' = h
    /\ sPc' = "update_lock"
FinishCycle(d, f, h) ==
    /\ data' = [d EXCEPT !.errors = ErrorsField(h, f),
                         !.initialized = is_initialized(sgp, f),
                         !.last_updated = now]
    /\ error_flags' = f
    /\ has_error' = h
    /\ sPc' = "update_lock"

(***************************************************************************)
(* Sensor task: manager.init() = Sgp41::init().                            *)
(***************************************************************************)
\* init() returned an error and the task returned with it
InitAborts(e) ==
    /\ initResult' = e
    /\ sPc' = "returned"
    /\ UNCHANGED <<sgp, cycles, gasArgs, published, sDeadline, data,
                   error_flags, has_error, pmsRes, sgpRes, s8Res, pmsCalls,
                   sgpCalls, s8Calls, cyclePubs>>

\* init() returned an error: it is dropped and the loop starts
InitFailed(e) ==
    /\ initResult' = e
    /\ BeginCycle
    /\ UNCHANGED <<sgp, cycles, gasArgs, published, sDeadline>>

\* one step of Sgp41::init as it is recorded in initLog: a bus write (the
\* bytes written), a bus read (the number of bytes asked for), a timer wait
\* (its duration in ms) or the final `self.initialized = true`
Logged(op, ok, arg) == [op |-> op, ok |-> ok, at |-> now, arg |-> arg]

\* the wait that follows the conditioning measurement
ConditioningWaitFull == CONDITIONING_DELAY_MS
ConditioningWait == CONDITIONING_DELAY_MS - MEASURE_DELAY_MS

\* self_test: the I2C write of CMD_SELF_TEST completes
SelfTestWrite(env) ==
    /\ sPc = "st_write"
    /\ CanRunSensor
    /\ callWrites' = callWrites + 1
    /\ i2cLastWrite' = CMD_SELF_TEST
    /\ \E ok \in env.io :
        IF ok
        THEN /\ sPc' = "st_delay"
             /\ sDeadline' = now + SELF_TEST_DELAY_MS
             /\ initLog' = initLog \o <<Logged("write", TRUE, CMD_SELF_TEST),
                                        Logged("wait", TRUE, <<SELF_TEST_DELAY_MS>>)>>
             /\ UNCHANGED <<sgp, data, error_flags, has_error, pmsRes, sgpRes,
                            s8Res, initResult, cycles, pmsCalls, sgpCalls,
                            s8Calls, cyclePubs, gasArgs, published>>
        ELSE /\ InitFailed(Sgp41Error("I2cError", 0))
             /\ initLog' = Append(initLog, Logged("write", FALSE, CMD_SELF_TEST))
    /\ UNCHANGED <<now, netVars, store, lockHolder, last_scrape_secs, wdVars,
                   webVars, callReads>>
    /\ UNCHANGED driverVars

\* a driver timer (self-test, measurement) expires
DriverDelay(from, to) ==
    /\ sPc = from
    /\ CanRunSensor
    /\ now >= sDeadline
    /\ sPc' = to
    /\ UNCHANGED <<now, netVars, store, lockHolder, last_scrape_secs, wdVars,
                   webVars, sDeadline, sgp, data, error_flags, has_error,
                   pmsRes, sgpRes, s8Res, initResult, cycles, pmsCalls,
                   sgpCalls, s8Calls, cyclePubs, callWrites, callReads,
                   i2cLastWrite, gasArgs, published>>
    /\ UNCHANGED <<initLog, driverVars>>

SelfTestDelay == DriverDelay("st_delay", "st_read")

\* self_test: the 3-byte read completes; on success init goes on with
\* measure_internal(None, None)
SelfTestRead(env) ==
    /\ sPc = "st_read"
    /\ CanRunSensor
    /\ callReads' = callReads + 1
    /\ \E ok \in env.io, read_buf \in env.self_test :
        IF ok /\ SelfTestDecode(read_buf) = NoSgpError
        THEN /\ sPc' = "cond_write"
             /\ gasArgs' = [humidity |-> NoneF, temp |-> NoneF]
             /\ initLog' = Append(initLog, Logged("read", TRUE, <<3>>))
             /\ UNCHANGED <<sgp, data, error_flags, has_error, pmsRes, sgpRes,
                            s8Res, initResult, cycles, pmsCalls, sgpCalls,
                            s8Calls, cyclePubs, published, sDeadline>>
        ELSE /\ InitFailed(IF ok THEN SelfTestDecode(read_buf)
                             ELSE Sgp41Error("I2cError", 0))
             /\ initLog' = Append(initLog, Logged("read", FALSE, <<3>>))
    /\ UNCHANGED <<now, netVars, store, lockHolder, last_scrape_secs, wdVars,
                   webVars, callWrites, i2cLastWrite>>
    /\ UNCHANGED driverVars

\* conditioning measurement: the I2C write of the measure command completes
CondWrite(env) ==
    /\ sPc = "cond_write"
    /\ CanRunSensor
    /\ callWrites' = callWrites + 1
    /\ i2cLastWrite' = MeasureBuffer(gasArgs.humidity, gasArgs.temp)
    /\ \E ok \in env.io :
        IF ok
        THEN /\ sPc' = "cond_delay"
             /\ sDeadline' = now + MEASURE_DELAY_MS
             /\ initLog' = initLog \o
                    <<Logged("write", TRUE, MeasureBuffer(gasArgs.humidity, gasArgs.temp)),
                      Logged("wait", TRUE, <<MEASURE_DELAY_MS>>)>>
             /\ UNCHANGED <<sgp, data, error_flags, has_error, pmsRes, sgpRes,
                            s8Res, initResult, cycles, pmsCalls, sgpCalls,
                            s8Calls, cyclePubs, gasArgs, published>>
        ELSE /\ InitFailed(Sgp41Error("I2cError", 0))
             /\ initLog' = Append(initLog,
                    Logged("write", FALSE, MeasureBuffer(gasArgs.humidity, gasArgs.temp)))
    /\ UNCHANGED <<now, netVars, store, lockHolder, last_scrape_secs, wdVars,
                   webVars, callReads>>
    /\ UNCHANGED driverVars

CondDelay == DriverDelay("cond_delay", "cond_read")

\* conditioning measurement: the 6-byte read completes; then the settle wait
CondRead(env) ==
    /\ sPc = "cond_read"
    /\ CanRunSensor
    /\ callReads' = callReads + 1
    /\ \E ok \in env.io, read_buf \in env.measure :
        IF ok /\ MeasureDecode(read_buf).ok
        THEN /\ sPc' = "settle"
             /\ sDeadline' = now + ConditioningWait
             /\ initLog' = initLog \o <<Logged("read", TRUE, <<6>>),
                                        Logged("wait", TRUE, <<ConditioningWait>>)>>
             /\ UNCHANGED <<sgp, data, error_flags, has_error, pmsRes, sgpRes,
                            s8Res, initResult, cycles, pmsCalls, sgpCalls,
                            s8Calls, cyclePubs, gasArgs, published>>
        ELSE /\ InitFailed(IF ok THEN MeasureDecode(read_buf).err
                             ELSE Sgp41Error("I2cError", 0))
             /\ initLog' = Append(initLog, Logged("read", FALSE, <<6>>))
    /\ UNCHANGED <<now, netVars, store, lockHolder, last_scrape_secs, wdVars,
                   webVars, callWrites, i2cLastWrite>>
    /\ UNCHANGED driverVars

\* the settle wait is over: the driver is Ready, init returns Ok, the loop starts
Settle ==
    /\ sPc = "settle"
    /\ CanRunSensor
    /\ now >= sDeadline
    /\ sgp' = [sgp EXCEPT !.initialized = TRUE]
    /\ initResult' = NoSgpError
    /\ initLog' = Append(initLog, Logged("ready", TRUE, << >>))
    /\ BeginCycle
    /\ UNCHANGED <<now, netVars, store, lockHolder, last_scrape_secs, wdVars,
                   webVars, sDeadline, cycles, callWrites, callReads,
                   i2cLastWrite, gasArgs, published>>
    /\ UNCHANGED driverVars

(***************************************************************************)
(* Sensor task: one acquisition cycle (read_and_update).                   *)
(***************************************************************************)
\* get_co2 is called: its request is written to the UART
CallS8 ==
    /\ s8Calls' = s8Calls + 1
    /\ sPc' = "s8_write"

\* pms.read() returns; measure_indices is called with the PM values
PmsRead(env) ==
    /\ sPc = "pms_read"
    /\ CanRunSensor
    /\ cycles < env.cycles
    /\ \E r \in env.pms :
        LET d == IF r.ok
                 THEN [data EXCEPT !.pm1 = r.val.pm1_ae,
                                   !.pm25 = r.val.pm25_ae,
                                   !.pm10 = r.val.pm10_ae,
                                   !.pm03_count = r.val.pm03_count,
                                   !.pm05_count = r.val.pm05_count,
                                   !.pm10_count = r.val.pm10_count,
                                   !.pm25_count = r.val.pm25_count,
                                   !.temp = r.val.temp,
                                   !.humidity = r.val.humidity]
                 ELSE data
            f == IF r.ok THEN error_flags ELSE [error_flags EXCEPT !.pms = r.err]
            h == has_error \/ ~r.ok
        IN  /\ pmsRes' = [done |-> TRUE, ok |-> r.ok, val |-> r.val, err |-> r.err]
            /\ IF NextLineAfterPms(r) = "sgp"
               THEN /\ sgpCalls' = sgpCalls + 1
                    /\ callWrites' = 0
                    /\ callReads' = 0
                    /\ gasArgs' = ManagerGasArgs(d)
                    /\ data' = d
                    /\ IF measure(sgp.initialized) = "NotInitialized"
                       THEN /\ sgpRes' = [done |-> TRUE, ok |-> FALSE, voc |-> 0,
                                          nox |-> 0,
                                          err |-> Sgp41Error("NotInitialized", 0)]
                            /\ error_flags' =
                                 [f EXCEPT !.sgp = Sgp41Error("NotInitialized", 0)]
                            /\ has_error' = TRUE
                            /\ CallS8
                       ELSE /\ sPc' = "gas_write"
                            /\ error_flags' = f
                            /\ has_error' = h
                            /\ UNCHANGED <<sgpRes, s8Calls>>
               ELSE /\ FinishCycle(d, f, h)
                    /\ UNCHANGED <<sgpCalls, callWrites, callReads, gasArgs,
                                   sgpRes, s8Calls>>
    /\ UNCHANGED <<now, netVars, store, lockHolder, last_scrape_secs, wdVars,
                   webVars, sDeadline, sgp, s8Res, initResult, cycles,
                   pmsCalls, cyclePubs, i2cLastWrite, published>>
    /\ UNCHANGED <<initLog, driverVars>>

\* measure_indices failed with e: the error is flagged, get_co2 is called
GasFailed(e) ==
    /\ sgpRes' = [done |-> TRUE, ok |-> FALSE, voc |-> 0, nox |-> 0, err |-> e]
    /\ error_flags' = [error_flags EXCEPT !.sgp = e]
    /\ has_error' = TRUE
    /\ CallS8
    /\ UNCHANGED <<sgp, data, sDeadline>>

\* measure_internal: the I2C write of command and compensation words completes
GasWrite(env) ==
    /\ sPc = "gas_write"
    /\ CanRunSensor
    /\ callWrites' = callWrites + 1
    /\ i2cLastWrite' = MeasureBuffer(gasArgs.humidity, gasArgs.temp)
    /\ \E ok \in env.io :
        IF ok
        THEN /\ sPc' = "gas_delay"
             /\ sDeadline' = now + MEASURE_DELAY_MS
             /\ UNCHANGED <<sgp, data, error_flags, has_error, sgpRes, s8Calls>>
        ELSE GasFailed(Sgp41Error("I2cError", 0))
    /\ UNCHANGED <<now, netVars, store, lockHolder, last_scrape_secs, wdVars,
                   webVars, pmsRes, s8Res, initResult, cycles, pmsCalls,
                   sgpCalls, cyclePubs, callReads, gasArgs, published>>
    /\ UNCHANGED <<initLog, driverVars>>

GasDelay == DriverDelay("gas_delay", "gas_read")

\* measure_internal: the 6-byte read completes; the raw ticks feed the
\* gas-index algorithms, the indices go into data, get_co2 is called
GasRead(env) ==
    /\ sPc = "gas_read"
    /\ CanRunSensor
    /\ callReads' = callReads + 1
    /\ \E ok \in env.io, read_buf \in env.measure,
          voc_index \in VocIndexValues, nox_index \in NoxIndexValues :
        IF ok /\ MeasureDecode(read_buf).ok
        THEN /\ sgp' = [sgp EXCEPT !.voc_algorithm = @ + 1,
                                   !.nox_algorithm = @ + 1]
             /\ sgpRes' = [done |-> TRUE, ok |-> TRUE, voc |-> voc_index,
                           nox |-> nox_index, err |-> NoSgpError]
             /\ data' = [data EXCEPT !.voc = voc_index, !.nox = nox_index]
             /\ CallS8
             /\ UNCHANGED <<error_flags, has_error, sDeadline>>
        ELSE GasFailed(IF ok THEN MeasureDecode(read_buf).err
                       ELSE Sgp41Error("I2cError", 0))
    /\ UNCHANGED <<now, netVars, store, lockHolder, last_scrape_secs, wdVars,
                   webVars, pmsRes, s8Res, initResult, cycles, pmsCalls,
                   sgpCalls, cyclePubs, callWrites, i2cLastWrite, gasArgs,
                   published>>
    /\ UNCHANGED <<initLog, driverVars>>

\* get_co2: write_all of the 8-byte request completes
S8Write(env) ==
    /\ sPc = "s8_write"
    /\ CanRunSensor
    /\ \E ok \in env.io :
        IF ok
        THEN /\ sPc' = "s8_read"
             /\ UNCHANGED <<data, error_flags, has_error, s8Res>>
        ELSE /\ s8Res' = [done |-> TRUE, ok |-> FALSE, co2 |-> 0,
                          err |-> "WriteError"]
             /\ FinishCycle(data, [error_flags EXCEPT !.s8 = "WriteError"], TRUE)
    /\ UNCHANGED <<now, netVars, store, lockHolder, last_scrape_secs, wdVars,
                   webVars, sDeadline, sgp, pmsRes, sgpRes, initResult, cycles,
                   pmsCalls, sgpCalls, s8Calls, cyclePubs, callWrites,
                   callReads, i2cLastWrite, gasArgs, published>>
    /\ UNCHANGED <<initLog, driverVars>>

\* get_co2: read_exact of the 7-byte response completes; read_all finishes
S8Read(env) ==
    /\ sPc = "s8_read"
    /\ CanRunSensor
    /\ \E ok \in env.io, buf \in env.s8 :
        LET e == IF ok THEN validate_response(buf) ELSE "ReadError"
            co2 == buf[4] * 256 + buf[5]
        IN  IF e = "None"
            THEN /\ s8Res' = [done |-> TRUE, ok |-> TRUE, co2 |-> co2,
                              err |-> "None"]
                 /\ FinishCycle([data EXCEPT !.co2 = co2], error_flags, has_error)
            ELSE /\ s8Res' = [done |-> TRUE, ok |-> FALSE, co2 |-> 0, err |-> e]
                 /\ FinishCycle(data, [error_flags EXCEPT !.s8 = e], TRUE)
    /\ UNCHANGED <<now, netVars, store, lockHolder, last_scrape_secs, wdVars,
                   webVars, sDeadline, sgp, pmsRes, sgpRes, initResult, cycles,
                   pmsCalls, sgpCalls, s8Calls, cyclePubs, callWrites,
                   callReads, i2cLastWrite, gasArgs, published>>
    /\ UNCHANGED <<initLog, driverVars>>

\* SharedSensorData::update: self.0.lock().await
UpdateLock ==
    /\ sPc = "update_lock"
    /\ CanRunSensor
    /\ lockHolder = NoHolder
    /\ lockHolder' = SensorHolder
    /\ sPc' = "update_assign"
    /\ UNCHANGED <<now, netVars, store, last_scrape_secs, wdVars, webVars,
                   sDeadline, sgp, data, error_flags, has_error, pmsRes,
                   sgpRes, s8Res, initResult, cycles, pmsCalls, sgpCalls,
                   s8Calls, cyclePubs, callWrites, callReads, i2cLastWrite,
                   gasArgs, published>>
    /\ UNCHANGED <<initLog, driverVars>>

\* *inner = data; the guard is dropped; the task arms the polling timer
UpdateAssign ==
    /\ sPc = "update_assign"
    /\ CanRunSensor
    /\ store' = Assign(store, data)
    /\ published' = data
    /\ lockHolder' = GuardDropped(lockHolder)
    /\ cyclePubs' = cyclePubs + 1
    /\ cycles' = cycles + 1
    /\ sPc' = "poll_timer"
    /\ sDeadline' = now + polling_interval
    /\ UNCHANGED <<now, netVars, last_scrape_secs, wdVars, webVars, sgp, data,
                   error_flags, has_error, pmsRes, sgpRes, s8Res, initResult,
                   pmsCalls, sgpCalls, s8Calls, callWrites, callReads,
                   i2cLastWrite, gasArgs>>
    /\ UNCHANGED <<initLog, driverVars>>

\* Timer::after(polling_interval) expires: the next cycle begins
PollTimer ==
    /\ sPc = "poll_timer"
    /\ CanRunSensor
    /\ now >= sDeadline
    /\ BeginCycle
    /\ UNCHANGED <<now, netVars, store, lockHolder, last_scrape_secs, wdVars,
                   webVars, sDeadline, sgp, initResult, cycles, callWrites,
                   callReads, i2cLastWrite, gasArgs, published>>
    /\ UNCHANGED <<initLog, driverVars>>

(***************************************************************************)
(* The firmware.                                                           *)
(***************************************************************************)
\* every step of the sensor task but the return of pms.read()
SensorSteps(env) ==
    \/ SelfTestWrite(env) \/ SelfTestDelay \/ SelfTestRead(env)
    \/ CondWrite(env) \/ CondDelay \/ CondRead(env) \/ Settle
    \/ GasWrite(env) \/ GasDelay \/ GasRead(env)
    \/ S8Write(env) \/ S8Read(env)
    \/ UpdateLock \/ UpdateAssign \/ PollTimer

SensorTask(env) == PmsRead(env) \/ SensorSteps(env)

WatchdogTask ==
    \/ WdTick \/ WdLock \/ WdRead \/ WdSetHigh \/ WdSkip \/ WdDelay
    \/ WdSetLow \/ WdLoop

WebTask(i) == MetricsRequest(i) \/ MetricsCopy(i) \/ MetricsRespond(i)

NextIn(env) ==
    \/ Advance(env)
    \/ NetChange
    \/ SensorTask(env)
    \/ WatchdogTask
    \/ \E i \in WebTasks : WebTask(i)

Init == InitIn(FullEnv)
Next == NextIn(FullEnv)
Spec == Init /\ [][Next]_vars

InitWd == InitIn(QuietEnv)
NextWd == NextIn(QuietEnv)
SpecWd == InitWd /\ [][NextWd]_vars

(***************************************************************************)
(* The firmware under the executor's scheduling: time passes, every woken  *)
(* task is polled (a task whose awaited timer, lock or transport operation *)
(* is ready runs again, however often requests arrive in between), and a   *)
(* handler that has started runs to its end.  Requests and network changes *)
(* stay free.                                                              *)
(***************************************************************************)
SpecLive ==
    /\ InitIn(LiveEnv)
    /\ [][NextIn(LiveEnv)]_vars
    /\ SF_vars(Advance(LiveEnv))
    /\ SF_vars(SensorTask(LiveEnv))
    /\ SF_vars(WatchdogTask)
    /\ \A i \in WebTasks : WF_vars(MetricsCopy(i) \/ MetricsRespond(i))

\* the same scheduling, but nothing is assumed about the PM line: the
\* sensor task's read of it may never return
SpecWdFair ==
    /\ InitIn(BlockEnv)
    /\ [][NextIn(BlockEnv)]_vars
    /\ SF_vars(Advance(BlockEnv))
    /\ SF_vars(SensorSteps(BlockEnv))
    /\ SF_vars(WatchdogTask)
    /\ \A i \in WebTasks : WF_vars(MetricsCopy(i) \/ MetricsRespond(i))

(***************************************************************************)
(* The PM driver on its own: Pms5003t::read on a UART that delivers the    *)
(* byte stream head, loop, loop, ... and whose first `faults` reads fail.  *)
(***************************************************************************)
\* bound on the line noise put in front of a frame
MaxGarbage == 2

\* the k-th byte the UART delivers (k = 1 is the first)
StreamByte(s, k) ==
    IF k <= Len(s.head) THEN s.head[k]
    ELSE s.loop[((k - Len(s.head) - 1) % Len(s.loop)) + 1]

\* read_exact: the next n bytes, from position p on
Window(s, p, n) == [i \in 1..n |-> StreamByte(s, p + i - 1)]

\* i16::from_be_bytes, as a reinterpretation of the 16-bit word
ToU16(w) == w
ToI16(w) == IF w >= 32768 THEN w - 65536 ELSE w

\* the wrapping sum of the first n bytes of data_buf
PayloadSum[data_buf \in Seq(0..255), n \in 0..DATA_PAYLOAD_LEN] ==
    IF n = 0 THEN 0 ELSE (PayloadSum[data_buf, n - 1] + data_buf[n]) % 65536

verify_checksum_low_byte(len_buf, data_buf) ==
    LET sum == (FRAME_START_1 + FRAME_START_2 + len_buf[1] + len_buf[2]
                + PayloadSum[data_buf, DATA_PAYLOAD_LEN]) % 65536
    IN  sum % 256 = data_buf[28]

verify_checksum(len_buf, data_buf) ==
    LET sum == (FRAME_START_1 + FRAME_START_2 + len_buf[1] + len_buf[2]
                + PayloadSum[data_buf, DATA_PAYLOAD_LEN]) % 65536
        expected_sum == from_be_bytes(data_buf[27], data_buf[28])
    IN  sum = expected_sum

\* temp and humidity are raw / 10.0; the model keeps the tenths
parse_frame(data_buf) ==
    [pm1_ae |-> from_be_bytes(data_buf[7], data_buf[8]),
     pm25_ae |-> from_be_bytes(data_buf[9], data_buf[10]),
     pm10_ae |-> from_be_bytes(data_buf[11], data_buf[12]),
     pm03_count |-> from_be_bytes(data_buf[13], data_buf[14]),
     pm05_count |-> from_be_bytes(data_buf[15], data_buf[16]),
     pm10_count |-> from_be_bytes(data_buf[17], data_buf[18]),
     pm25_count |-> from_be_bytes(data_buf[19], data_buf[20]),
     temp |-> ToI16(from_be_bytes(data_buf[21], data_buf[22])),
     humidity |-> from_be_bytes(data_buf[23], data_buf[24])]

\* one attempt, started at stream position pos: its result and the number
\* of bytes it took from the UART
TryResult(ok, val, err, used) == [ok |-> ok, val |-> val, err |-> err, used |-> used]

try_read_frame(s, pos, read_fails) ==
    IF read_fails THEN TryResult(FALSE, NoPmsData, "Read", 0)
    ELSE IF StreamByte(s, pos) # FRAME_START_1
    THEN TryResult(FALSE, NoPmsData, "Read", 1)
    ELSE IF StreamByte(s, pos + 1) # FRAME_START_2
    THEN TryResult(FALSE, NoPmsData, "Read", 2)
    ELSE IF from_be_bytes(StreamByte(s, pos + 2), StreamByte(s, pos + 3))
              # EXPECTED_FRAME_LEN
    THEN TryResult(FALSE, NoPmsData, "FrameLen", 4)
    ELSE IF ~verify_checksum(Window(s, pos + 2, 2), Window(s, pos + 4, 28))
    THEN TryResult(FALSE, NoPmsData, "Checksum", 32)
    ELSE TryResult(TRUE, parse_frame(Window(s, pos + 4, 28)), "None", 32)

\* `for _ in 0..MAX_SYNC_ATTEMPTS`, after n attempts
LoopContinuesLe(n) == n <= MAX_SYNC_ATTEMPTS
LoopContinues(n) == n < MAX_SYNC_ATTEMPTS

\* `if let Ok(data) = ...`: the error of a failed attempt is dropped
IgnoresOnlyRead(t) == t.err = "Read"
IgnoresButTransport(t) == ~(t.err = "Read" /\ t.used = 0)
IgnoresError(t) == TRUE

\* one pass through the loop body of read()
PmsAttempt ==
    /\ drvPc = "pms"
    /\ LoopContinues(attempts)
    /\ LET t == try_read_frame(uart, rxPos, attempts < uart.faults)
       IN  /\ attempts' = attempts + 1
           /\ lastTry' = t
           /\ rxPos' = rxPos + t.used
           /\ rxCount' = rxCount + t.used
           /\ IF t.ok
              THEN /\ pmsOut' = [done |-> TRUE, ok |-> TRUE, val |-> t.val,
                                 err |-> "None"]
                   /\ drvPc' = "done"
              ELSE IF IgnoresError(t)
              THEN UNCHANGED <<pmsOut, drvPc>>
              ELSE /\ pmsOut' = [done |-> TRUE, ok |-> FALSE,
                                 val |-> NoPmsData, err |-> t.err]
                   /\ drvPc' = "done"
    /\ UNCHANGED <<now, netVars, store, lockHolder, last_scrape_secs, wdVars,
                   webVars, sensorVars, initLog>>
    /\ UNCHANGED <<uart, s8In, tx, s8Out, crcIn, crcOut>>
    /\ UNCHANGED <<gas, gasLog, ticksIn, ticksOut>>

\* the loop is over: Err(PmsError::MaxAttemptsExceeded)
PmsGiveUp ==
    /\ drvPc = "pms"
    /\ ~LoopContinues(attempts)
    /\ pmsOut' = [done |-> TRUE, ok |-> FALSE, val |-> NoPmsData,
                  err |-> "MaxAttemptsExceeded"]
    /\ drvPc' = "done"
    /\ UNCHANGED <<now, netVars, store, lockHolder, last_scrape_secs, wdVars,
                   webVars, sensorVars, initLog>>
    /\ UNCHANGED <<uart, rxPos, rxCount, attempts, lastTry, s8In, tx, s8Out,
                   crcIn, crcOut>>
    /\ UNCHANGED <<gas, gasLog, ticksIn, ticksOut>>

\* a frame as the sensor sends it, from its 13 payload words
FrameOf(words) ==
    LET payload == [i \in 1..DATA_PAYLOAD_LEN |->
                      IF i % 2 = 1 THEN words[(i + 1) \div 2] \div 256
                      ELSE words[i \div 2] % 256]
        body == <<FRAME_START_1, FRAME_START_2>>
                  \o to_be_bytes(EXPECTED_FRAME_LEN) \o payload
        sum == PayloadSum[body, 4] + PayloadSum[payload, DATA_PAYLOAD_LEN]
    IN  body \o to_be_bytes(sum % 65536)

\* ordinary readings; every word 0xFFFF (temperature -0.1); a frame whose
\* checksum ends in the first sync byte (0x03 0x42; temperature -10.0)
PmsFrames ==
    { FrameOf(<<100, 200, 300, 3, 5, 7, 11, 13, 17, 19, 215, 437, 37120>>),
      FrameOf([i \in 1..13 |-> 65535]),
      FrameOf(<<0, 0, 0, 1, 2, 3, 4, 5, 6, 7, 65436, 19, 205>>) }

\* line noise: up to MaxGarbage bytes, never the two sync bytes in a row
Garbage ==
    { g \in UNION { [1..n -> {0, FRAME_START_1, FRAME_START_2}] : n \in 1..MaxGarbage } :
        \A i \in 1..(Len(g) - 1) :
            ~(g[i] = FRAME_START_1 /\ g[i + 1] = FRAME_START_2) }

\* frames with one byte of the sync, length or checksum field replaced
Corrupted ==
    { [f EXCEPT ![c] = v] : f \in PmsFrames, c \in {1, 2, 3, 4, 31, 32},
                           v \in {0, FRAME_START_1, 255} }
        \ PmsFrames

Stream(head, loop, faults) == [head |-> head, loop |-> loop, faults |-> faults]

PmsStreams ==
    { Stream(<< >>, f, n) : f \in PmsFrames, n \in {0, 1, MAX_SYNC_ATTEMPTS} }
    \cup { Stream(g \o f, h, 0) : g \in Garbage, f \in PmsFrames, h \in PmsFrames }
    \cup { Stream(c, h, 0) : c \in Corrupted, h \in PmsFrames }
    \cup { Stream([i \in 1..n |-> 0] \o f, f, 0) :
             n \in {MAX_SYNC_ATTEMPTS - 1, MAX_SYNC_ATTEMPTS}, f \in PmsFrames }
    \cup { Stream(<< >>, <<0>>, 0) }

(***************************************************************************)
(* The CO2 driver on its own: S8::get_co2 on a UART whose write and read   *)
(* succeed or fail and whose read delivers a given 7-byte response.        *)
(***************************************************************************)
\* the request get_co2 puts on the wire: six bytes, CRC low byte, CRC high
Co2Request ==
    LET cmd == <<MODBUS_ADDR_ANY, MODBUS_FUNC_READ_INPUT, MODBUS_IR4_CO2_HIGH,
                 MODBUS_IR4_CO2_LOW, MODBUS_READ_LEN_HIGH, MODBUS_READ_LEN_LOW>>
        crc == crc16_modbus(cmd)
    IN  cmd \o <<crc % 256, (crc \div 256) % 256>>

\* responses: right and wrong header bytes, with the CRC of the first five
\* bytes in wire order, in swapped order, or absent
S8Buffers ==
    UNION { LET body == <<b0, b1, b2, v[1], v[2]>>
                crc == crc16_modbus(body)
            IN  { body \o <<crc % 256, crc \div 256>>,
                  body \o <<crc \div 256, crc % 256>>,
                  body \o <<0, 0>> } :
            b0 \in {MODBUS_ADDR_ANY, 1}, b1 \in {MODBUS_FUNC_READ_INPUT, 3},
            b2 \in {RESPONSE_BYTE_COUNT, 4},
            v \in {<<1, 144>>, <<255, 255>>, <<0, 0>>} }

\* self.uart.write_all(&cmd) completes
S8DrvWrite ==
    /\ drvPc = "s8_write"
    /\ tx' = Co2Request
    /\ IF s8In.write_ok
       THEN /\ drvPc' = "s8_read"
            /\ UNCHANGED s8Out
       ELSE /\ s8Out' = [done |-> TRUE, ok |-> FALSE, co2 |-> 0,
                         err |-> "WriteError"]
            /\ drvPc' = "done"
    /\ UNCHANGED <<now, netVars, store, lockHolder, last_scrape_secs, wdVars,
                   webVars, sensorVars, initLog>>
    /\ UNCHANGED <<uart, rxPos, rxCount, attempts, lastTry, pmsOut, s8In,
                   crcIn, crcOut>>
    /\ UNCHANGED <<gas, gasLog, ticksIn, ticksOut>>

\* self.uart.read_exact(&mut buf) completes; the response is validated
S8DrvRead ==
    /\ drvPc = "s8_read"
    /\ LET e == IF s8In.read_ok THEN validate_response(s8In.buf)
                ELSE "ReadError"
           co2 == s8In.buf[4] * 256 + s8In.buf[5]
       IN  s8Out' = IF e = "None"
                    THEN [done |-> TRUE, ok |-> TRUE, co2 |-> co2, err |-> "None"]
                    ELSE [done |-> TRUE, ok |-> FALSE, co2 |-> 0, err |-> e]
    /\ drvPc' = "done"
    /\ UNCHANGED <<now, netVars, store, lockHolder, last_scrape_secs, wdVars,
                   webVars, sensorVars, initLog>>
    /\ UNCHANGED <<uart, rxPos, rxCount, attempts, lastTry, pmsOut, s8In, tx,
                   crcIn, crcOut>>
    /\ UNCHANGED <<gas, gasLog, ticksIn, ticksOut>>

(***************************************************************************)
(* The two checksum functions applied to given data.                       *)
(***************************************************************************)
\* the Sensirion test vector BE EF, the self-test word D4 00, the six
\* request bytes of get_co2, the digits "123456789", a zero byte
CrcVectors ==
    { <<190, 239>>, <<212, 0>>, <<254, 4, 0, 3, 0, 1>>,
      <<49, 50, 51, 52, 53, 54, 55, 56, 57>>, <<0>> }

CrcApply ==
    /\ drvPc = "crc"
    /\ crcOut' = [crc8 |-> crc8(crcIn), crc16 |-> crc16_modbus(crcIn)]
    /\ drvPc' = "done"
    /\ UNCHANGED <<now, netVars, store, lockHolder, last_scrape_secs, wdVars,
                   webVars, sensorVars, initLog>>
    /\ UNCHANGED <<uart, rxPos, rxCount, attempts, lastTry, pmsOut, s8In, tx,
                   s8Out, crcIn>>
    /\ UNCHANGED <<gas, gasLog, ticksIn, ticksOut>>

(***************************************************************************)
(* The tick conversions applied to given inputs.                           *)
(***************************************************************************)
\* how far beyond the valid range the inputs go, in whole units
MaxOverRange == 50

\* whole percents and whole degrees, in tenths; one of the two is swept
\* while the other stays at 50 % RH / 25 C
TickInputs ==
    { [humidity |-> 10 * k, temp |-> 250] :
          k \in (0 - MaxOverRange)..(100 + MaxOverRange) }
    \cup { [humidity |-> 500, temp |-> 10 * k] :
          k \in (0 - 45 - MaxOverRange)..(130 + MaxOverRange) }

TicksApply ==
    /\ drvPc = "ticks"
    /\ ticksOut' = [humidity |-> humidity_to_ticks(ticksIn.humidity),
                    temp |-> temperature_to_ticks(ticksIn.temp)]
    /\ drvPc' = "done"
    /\ UNCHANGED <<now, netVars, store, lockHolder, last_scrape_secs, wdVars,
                   webVars, sensorVars, initLog>>
    /\ UNCHANGED <<uart, rxPos, rxCount, attempts, lastTry, pmsOut, s8In, tx,
                   s8Out, crcIn, crcOut, gas, gasLog, ticksIn>>

(***************************************************************************)
(* The gas driver called on its own: any sequence of init, self_test,      *)
(* heater_off and measure_indices, each on an I2C bus whose write and read *)
(* succeed or fail and whose response is one of the given ones.  A call is *)
(* one step: nothing else runs while the driver waits.                     *)
(***************************************************************************)
MaxGasCalls == 4

\* self-test responses: also a failing result under a wrong CRC
GasSelfTestInputs == SelfTestResponses \cup { <<75, 0, 0>> }

\* compensation arguments: none, 50 % RH / 25 C, beyond the valid range
GasCompensations ==
    { [humidity |-> NoneF, temp |-> NoneF],
      [humidity |-> SomeF(500), temp |-> SomeF(250)],
      [humidity |-> SomeF(1500), temp |-> SomeF(-500)] }

\* self_test: command write, wait, 3-byte read, decoding
SelfTestOutcome(write_ok, read_ok, read_buf) ==
    IF ~write_ok \/ ~read_ok THEN Sgp41Error("I2cError", 0)
    ELSE SelfTestDecode(read_buf)

\* measure_internal: command write, wait, 6-byte read, decoding
MeasureOutcome(write_ok, read_ok, read_buf) ==
    IF ~write_ok \/ ~read_ok THEN Sgp41Error("I2cError", 0)
    ELSE MeasureDecode(read_buf).err

\* what a read leaves in the buffer of a call
Received(write_ok, read_ok, read_buf) ==
    IF write_ok /\ read_ok THEN read_buf ELSE << >>

\* the call returns: what it was, what it returned, the last bytes it wrote
\* and the last bytes it read
GasReturn(op, err, humidity, temp, bytes, read) ==
    gasLog' = [n |-> gasLog.n + 1, op |-> op, err |-> err,
               humidity |-> humidity, temp |-> temp, tx |-> bytes,
               rx |-> read, before |-> gas]

GasInit ==
    /\ drvPc = "gas"
    /\ gasLog.n < MaxGasCalls
    /\ \E w1 \in BOOLEAN, r1 \in BOOLEAN, test_buf \in GasSelfTestInputs,
          w2 \in BOOLEAN, r2 \in BOOLEAN, read_buf \in MeasureResponses :
        LET e1 == SelfTestOutcome(w1, r1, test_buf)
            e2 == MeasureOutcome(w2, r2, read_buf)
        IN  IF e1 # NoSgpError
            THEN /\ GasReturn("init", e1, NoneF, NoneF, CMD_SELF_TEST,
                              Received(w1, r1, test_buf))
                 /\ UNCHANGED gas
            ELSE IF e2 # NoSgpError
            THEN /\ GasReturn("init", e2, NoneF, NoneF,
                              MeasureBuffer(NoneF, NoneF),
                              Received(w2, r2, read_buf))
                 /\ UNCHANGED gas
            ELSE /\ GasReturn("init", NoSgpError, NoneF, NoneF,
                              MeasureBuffer(NoneF, NoneF), read_buf)
                 /\ gas' = [gas EXCEPT !.initialized = TRUE]
    /\ UNCHANGED <<now, netVars, store, lockHolder, last_scrape_secs, wdVars,
                   webVars, sensorVars, initLog>>
    /\ UNCHANGED <<drvPc, uart, rxPos, rxCount, attempts, lastTry, pmsOut,
                   s8In, tx, s8Out, crcIn, crcOut, ticksIn, ticksOut>>

GasSelfTest ==
    /\ drvPc = "gas"
    /\ gasLog.n < MaxGasCalls
    /\ \E w \in BOOLEAN, r \in BOOLEAN, test_buf \in GasSelfTestInputs :
        GasReturn("self_test", SelfTestOutcome(w, r, test_buf), NoneF, NoneF,
                  CMD_SELF_TEST, Received(w, r, test_buf))
    /\ UNCHANGED gas
    /\ UNCHANGED <<now, netVars, store, lockHolder, last_scrape_secs, wdVars,
                   webVars, sensorVars, initLog>>
    /\ UNCHANGED <<drvPc, uart, rxPos, rxCount, attempts, lastTry, pmsOut,
                   s8In, tx, s8Out, crcIn, crcOut, ticksIn, ticksOut>>

\* the write's `?` returns before the flag is cleared
GasHeaterOff ==
    /\ drvPc = "gas"
    /\ gasLog.n < MaxGasCalls
    /\ \E write_ok \in BOOLEAN :
        IF write_ok
        THEN /\ GasReturn("heater_off", NoSgpError, NoneF, NoneF,
                          CMD_HEATER_OFF, << >>)
             /\ gas' = [gas EXCEPT !.initialized = FALSE]
        ELSE /\ GasReturn("heater_off", Sgp41Error("I2cError", 0), NoneF,
                          NoneF, CMD_HEATER_OFF, << >>)
             /\ UNCHANGED gas
    /\ UNCHANGED <<now, netVars, store, lockHolder, last_scrape_secs, wdVars,
                   webVars, sensorVars, initLog>>
    /\ UNCHANGED <<drvPc, uart, rxPos, rxCount, attempts, lastTry, pmsOut,
                   s8In, tx, s8Out, crcIn, crcOut, ticksIn, ticksOut>>

GasMeasureIndices ==
    /\ drvPc = "gas"
    /\ gasLog.n < MaxGasCalls
    /\ \E c \in GasCompensations, w \in BOOLEAN, r \in BOOLEAN,
          read_buf \in MeasureResponses :
        IF measure(gas.initialized) = "NotInitialized"
        THEN /\ GasReturn("measure_indices", Sgp41Error("NotInitialized", 0),
                          c.humidity, c.temp, << >>, << >>)
             /\ UNCHANGED gas
        ELSE LET e == MeasureOutcome(w, r, read_buf)
             IN  /\ GasReturn("measure_indices", e, c.humidity, c.temp,
                              MeasureBuffer(c.humidity, c.temp),
                              Received(w, r, read_buf))
                 /\ gas' = IF e = NoSgpError
                           THEN [gas EXCEPT !.voc_algorithm = @ + 1,
                                            !.nox_algorithm = @ + 1]
                           ELSE gas
    /\ UNCHANGED <<now, netVars, store, lockHolder, last_scrape_secs, wdVars,
                   webVars, sensorVars, initLog>>
    /\ UNCHANGED <<drvPc, uart, rxPos, rxCount, attempts, lastTry, pmsOut,
                   s8In, tx, s8Out, crcIn, crcOut, ticksIn, ticksOut>>

(***************************************************************************)
(* The drivers and pure functions, each called on its own.                 *)
(***************************************************************************)
InitDrv ==
    /\ Spawned(BlockEnv)
    /\ rxPos = 1
    /\ rxCount = 0
    /\ attempts = 0
    /\ lastTry = NoTry
    /\ pmsOut = NoPmsRes
    /\ tx = << >>
    /\ s8Out = NoS8Res
    /\ crcOut = [crc8 |-> 0, crc16 |-> 0]
    /\ gas = NewSgp41
    /\ gasLog = NoGasCall
    /\ ticksOut = [humidity |-> 0, temp |-> 0]
    /\ \/ /\ drvPc = "pms"
          /\ uart \in PmsStreams
          /\ s8In = NoS8In
          /\ crcIn = << >>
          /\ ticksIn = [humidity |-> 0, temp |-> 0]
       \/ /\ drvPc = "s8_write"
          /\ uart = NoStream
          /\ s8In \in [write_ok : BOOLEAN, read_ok : BOOLEAN, buf : S8Buffers]
          /\ crcIn = << >>
          /\ ticksIn = [humidity |-> 0, temp |-> 0]
       \/ /\ drvPc = "crc"
          /\ uart = NoStream
          /\ s8In = NoS8In
          /\ crcIn \in CrcVectors
          /\ ticksIn = [humidity |-> 0, temp |-> 0]
       \/ /\ drvPc = "ticks"
          /\ uart = NoStream
          /\ s8In = NoS8In
          /\ crcIn = << >>
          /\ ticksIn \in TickInputs
       \/ /\ drvPc = "gas"
          /\ uart = NoStream
          /\ s8In = NoS8In
          /\ crcIn = << >>
          /\ ticksIn = [humidity |-> 0, temp |-> 0]

NextDrv ==
    \/ PmsAttempt \/ PmsGiveUp \/ S8DrvWrite \/ S8DrvRead \/ CrcApply
    \/ TicksApply
    \/ GasInit \/ GasSelfTest \/ GasHeaterOff \/ GasMeasureIndices

\* every transport operation of the driver under test returns
SpecDrv == InitDrv /\ [][NextDrv]_vars /\ WF_vars(NextDrv)

(***************************************************************************)
(* Properties.                                                             *)
(***************************************************************************)
\* the three health signals, as they stand at the tick the watchdog is in
\* (no other task runs between ticker.next() returning and the loop end)
WifiBadAtTick ==
    ~(linkUp /\ configUp) /\ wdNow - last_wifi_ok > 300 * 1000
SensorsBadAtTick == wdNow - store.last_updated > 120 * 1000
ScrapeBadAtTick == wdNow - last_scrape_secs * 1000 > 900 * 1000
InTick == wdPc \in {"lock", "read", "decide", "delay", "set_low", "end"}

\* C1: at a tick where the link is down longer than wifi_timeout, or the
\* snapshot is older than sensor_timeout, or the last scrape is older than
\* metric_scrape_timeout (alone or combined), the kick output is never
\* driven high.
C1_NoKickWhenStale ==
    (InTick /\ (WifiBadAtTick \/ SensorsBadAtTick \/ ScrapeBadAtTick))
        => (pin = "low" /\ pulses = 0)

\* a tick has ended without a kick while only the scrape signal was stale
C1_Witness ==
    /\ wdPc = "end"
    /\ pulses = 0
    /\ ScrapeBadAtTick
    /\ ~WifiBadAtTick
    /\ ~SensorsBadAtTick

\* C2: at a tick where all three signals are within bounds (an age equal to
\* its timeout included), the kick output goes high exactly once, stays
\* high for kick_duration_ms and is low again when the tick ends.
C2_KickWhenHealthy ==
    (wdPc = "end" /\ ~WifiBadAtTick /\ ~SensorsBadAtTick /\ ~ScrapeBadAtTick)
        => (pulses = 1 /\ pin = "low" /\ pulseWidth = 25)

\* a tick has ended with a kick while the snapshot age was exactly sensor_timeout
C2_Witness ==
    /\ wdPc = "end"
    /\ pulses = 1
    /\ pin = "low"
    /\ wdNow - store.last_updated = 120 * 1000
    /\ ~WifiBadAtTick
    /\ ~ScrapeBadAtTick

\* C3: what a reader (metrics handler, watchdog) copies out of the store is,
\* in all fields, one snapshot handed to update() by a cycle (or the initial
\* default snapshot): never a mixture of two cycles.
C3_ReaderSeesOneSnapshot ==
    /\ \A i \in WebTasks : webPc[i] = "respond" => sensor_data[i] = published
    /\ wdPc \in {"decide", "delay", "set_low", "end"}
          => sensor_last_updated = published.last_updated

\* a metrics handler holds its copy of cycle 1's snapshot while the sensor
\* task is in the middle of cycle 2
C3_Witness ==
    /\ \E i \in WebTasks : webPc[i] = "respond" /\ sensor_data[i] = published
    /\ cycles = 1
    /\ sPc = "s8_read"
    /\ data # published

\* C4: no task is suspended while it holds the snapshot lock: the sensor
\* task holds it only for the assignment, after its three line reads have
\* returned; the watchdog and the metrics handler only for the copy.
C4_NoLockAcrossAwait ==
    /\ lockHolder = SensorHolder =>
          /\ sPc = "update_assign"
          /\ pmsRes.done /\ sgpRes.done /\ s8Res.done
    /\ lockHolder = WatchdogHolder => wdPc = "read"
    /\ \A i \in WebTasks : lockHolder = WebHolder(i) => webPc[i] = "copy"
    /\ lockHolder.task \in {"none", "sensor", "watchdog", "web"}
    /\ AllSuspended => lockHolder = NoHolder

\* the sensor task holds the lock, about to assign
C4_Witness ==
    /\ lockHolder = SensorHolder
    /\ sPc = "update_assign"
    /\ wdPc = "ticker"

\* C5: in every cycle the PM read, the gas measurement and the CO2 read are
\* each invoked exactly once whatever the earlier lines returned, and the
\* cycle ends by publishing exactly one snapshot.
C5_EveryLineOncePerCycle ==
    /\ sPc \in {"update_lock", "update_assign"} =>
          pmsCalls = 1 /\ sgpCalls = 1 /\ s8Calls = 1 /\ cyclePubs = 0
    /\ sPc = "poll_timer" =>
          pmsCalls = 1 /\ sgpCalls = 1 /\ s8Calls = 1 /\ cyclePubs = 1
    /\ pmsCalls <= 1 /\ sgpCalls <= 1 /\ s8Calls <= 1 /\ cyclePubs <= 1

\* a cycle in which all three lines failed has published its snapshot
C5_Witness ==
    /\ sPc = "poll_timer"
    /\ pmsRes.done /\ ~pmsRes.ok
    /\ sgpRes.done /\ ~sgpRes.ok /\ sgpRes.err.kind = "I2cError"
    /\ s8Res.done /\ ~s8Res.ok
    /\ cyclePubs = 1

\* C6: the published snapshot holds, for a line that succeeded, the values
\* its driver returned in this cycle, and zero for a line that failed,
\* whatever the previous snapshot held.
C6_FieldsFromThisCycle ==
    sPc = "poll_timer" =>
        /\ store.pm1 = (IF pmsRes.ok THEN pmsRes.val.pm1_ae ELSE 0)
        /\ store.pm25 = (IF pmsRes.ok THEN pmsRes.val.pm25_ae ELSE 0)
        /\ store.pm10 = (IF pmsRes.ok THEN pmsRes.val.pm10_ae ELSE 0)
        /\ store.pm03_count = (IF pmsRes.ok THEN pmsRes.val.pm03_count ELSE 0)
        /\ store.pm05_count = (IF pmsRes.ok THEN pmsRes.val.pm05_count ELSE 0)
        /\ store.pm10_count = (IF pmsRes.ok THEN pmsRes.val.pm10_count ELSE 0)
        /\ store.pm25_count = (IF pmsRes.ok THEN pmsRes.val.pm25_count ELSE 0)
        /\ store.temp = (IF pmsRes.ok THEN pmsRes.val.temp ELSE 0)
        /\ store.humidity = (IF pmsRes.ok THEN pmsRes.val.humidity ELSE 0)
        /\ store.voc = (IF sgpRes.ok THEN sgpRes.voc ELSE 0)
        /\ store.nox = (IF sgpRes.ok THEN sgpRes.nox ELSE 0)
        /\ store.co2 = (IF s8Res.ok THEN s8Res.co2 ELSE 0)

\* the second cycle was published with PM and gas read and CO2 failed
C6_Witness ==
    /\ sPc = "poll_timer"
    /\ cycles = 2
    /\ pmsRes.ok /\ sgpRes.ok /\ ~s8Res.ok
    /\ store.co2 = 0
    /\ store.pm25 = 5 /\ store.voc = 101
    /\ store.errors = [present |-> TRUE, pms |-> "None", sgp |-> NoSgpError,
                       s8 |-> "ChecksumError"]

\* C7: the published snapshot has an error record iff a line failed in the
\* cycle, and then the slot of a line is set iff that line failed, to the
\* error its driver returned.
C7_ErrorRecord ==
    sPc = "poll_timer" =>
        /\ store.errors.present <=> (~pmsRes.ok \/ ~sgpRes.ok \/ ~s8Res.ok)
        /\ store.errors.pms = (IF pmsRes.ok THEN "None" ELSE pmsRes.err)
        /\ store.errors.sgp = (IF sgpRes.ok THEN NoSgpError ELSE sgpRes.err)
        /\ store.errors.s8 = (IF s8Res.ok THEN "None" ELSE s8Res.err)
        /\ ~pmsRes.ok => pmsRes.err # "None"
        /\ ~sgpRes.ok => sgpRes.err # NoSgpError
        /\ ~s8Res.ok => s8Res.err # "None"

\* a snapshot was published with the gas and CO2 slots set and the PM slot empty
C7_Witness ==
    /\ sPc = "poll_timer"
    /\ store.errors.present
    /\ pmsRes.ok /\ store.errors.pms = "None"
    /\ store.errors.sgp = Sgp41Error("CrcError", 0)
    /\ store.errors.s8 = "InvalidHeader"

\* C8: the gas measurement of a cycle is compensated with the temperature
\* and humidity the PM line returned in that cycle if the PM read succeeded,
\* and with DEFAULT_RH_TICKS / DEFAULT_TEMP_TICKS if it failed.
C8_CompensationFromPmOrDefault ==
    sPc \in {"gas_delay", "gas_read"} =>
        i2cLastWrite =
            IF pmsRes.ok
            THEN MeasureBuffer(SomeF(pmsRes.val.humidity), SomeF(pmsRes.val.temp))
            ELSE MeasureBuffer(NoneF, NoneF)

\* C9: the initialized flag of a published snapshot equals the gas driver's
\* is_initialized() at the end of the cycle, which is true exactly when
\* init() has returned Ok.
C9_InitializedMirrorsDriver ==
    sPc = "poll_timer" =>
        /\ store.initialized = sgp.initialized
        /\ store.initialized <=> (initResult = NoSgpError)

\* a snapshot was published with initialized set although its gas read failed
C9_Witness ==
    /\ sPc = "poll_timer"
    /\ store.initialized
    /\ sgp.initialized
    /\ sgpRes.done /\ ~sgpRes.ok

\* C10: a measurement call made while the driver is not Ready, through
\* measure, measure_indices or measure_internal, returns NotInitialized and
\* performs no I2C write and no I2C read: while not Ready the measure command
\* is never put on the bus, no measurement exchange is in progress, and a
\* finished gas line of a cycle holds NotInitialized.
C10_NoMeasurementBeforeReady ==
    ~sgp.initialized =>
        /\ sPc \notin {"cond_delay", "cond_read",
                       "gas_write", "gas_delay", "gas_read"}
        /\ i2cLastWrite \in {<< >>, <<40, 14>>}
        /\ sgpRes.done =>
              (~sgpRes.ok /\ sgpRes.err = Sgp41Error("NotInitialized", 0))

\* C11: init() performs, in this order, the self-test exchange, exactly one
\* conditioning measurement and a wait of (10000 - 50) ms, and only then
\* marks the driver Ready; the driver is Ready only if every step of both
\* exchanges succeeded, and a measurement is written only after a self-test
\* that passed.
C11_InitSequence ==
    LET n == Len(initLog)
        steps == [i \in 1..n |-> <<initLog[i].op, initLog[i].arg>>]
        measurements ==
            {i \in 1..n : initLog[i].op = "write" /\ initLog[i].arg # <<40, 14>>}
    IN  /\ sgp.initialized =>
            /\ steps = << <<"write", <<40, 14>>>>, <<"wait", <<320>>>>,
                          <<"read", <<3>>>>,
                          <<"write", <<38, 25, 128, 0, 162, 102, 102, 147>>>>,
                          <<"wait", <<50>>>>, <<"read", <<6>>>>,
                          <<"wait", <<10000 - 50>>>>, <<"ready", << >>>> >>
            /\ \A i \in 1..n : initLog[i].ok
            /\ initLog[8].at >= initLog[7].at + (10000 - 50)
        /\ ~sgp.initialized => \A i \in 1..n : initLog[i].op # "ready"
        /\ Cardinality(measurements) <= 1
        /\ \A i \in measurements :
            /\ i = 4
            /\ \A j \in 1..3 : initLog[j].ok
            /\ initLog[3].op = "read"

\* init has returned Ok after the full sequence and a cycle has been published
C11_Witness ==
    /\ sgp.initialized
    /\ Len(initLog) = 8
    /\ initLog[8].at = initLog[7].at + (10000 - 50)
    /\ initLog[7].at = initLog[1].at + 320 + 50
    /\ cycles = 1

\* C12: the sensor task runs init() once, before the first cycle, and never
\* again; after a failed init every cycle still publishes a snapshot, with
\* initialized = false, voc = 0, nox = 0 and gas error NotInitialized, makes
\* no I2C access, and reads and reports the PM and CO2 lines.
C12_FailedInitIsSwallowed ==
    /\ []((pmsCalls > 0 \/ cycles > 0 \/ pmsRes.done) =>
             initResult.kind # "Pending")
    /\ [](Cardinality({i \in 1..Len(initLog) :
                         initLog[i].arg = <<40, 14>>}) <= 1)
    /\ [][initResult.kind # "Pending" =>
             (initResult' = initResult /\ initLog' = initLog)]_vars
    /\ [][initResult.kind \notin {"Pending", "None"} =>
             i2cLastWrite' = i2cLastWrite]_vars
    /\ []((initResult.kind \notin {"Pending", "None"} /\ sPc = "poll_timer") =>
            /\ cyclePubs = 1
            /\ ~store.initialized
            /\ store.voc = 0 /\ store.nox = 0
            /\ store.errors.present
            /\ store.errors.sgp = [kind |-> "NotInitialized", code |-> 0]
            /\ callWrites = 0 /\ callReads = 0
            /\ pmsCalls = 1 /\ s8Calls = 1
            /\ pmsRes.done /\ s8Res.done
            /\ store.pm25 = (IF pmsRes.ok THEN pmsRes.val.pm25_ae ELSE 0)
            /\ store.errors.pms = (IF pmsRes.ok THEN "None" ELSE pmsRes.err)
            /\ store.co2 = (IF s8Res.ok THEN s8Res.co2 ELSE 0)
            /\ store.errors.s8 = (IF s8Res.ok THEN "None" ELSE s8Res.err))

\* the second cycle after a failed self-test has been published, with the PM
\* and CO2 values read
C12_Witness ==
    /\ sPc = "poll_timer"
    /\ initResult = [kind |-> "SelfTestFailed", code |-> 19200]
    /\ cycles = 2
    /\ ~store.initialized
    /\ store.errors.sgp.kind = "NotInitialized"
    /\ pmsRes.ok /\ store.pm25 = 5
    /\ s8Res.ok /\ store.co2 = 400

(***************************************************************************)
(* C13: provided every transport operation and every timer wait completes, *)
(* the sensor task never returns: it is always at one of the awaits or     *)
(* steps of init and of the loop, every cycle it has completed is followed *)
(* by one wait of polling_interval (armed when the snapshot is published,  *)
(* and the next cycle begins no earlier than its expiry), and after every  *)
(* completed cycle a further one completes - up to the explored number of  *)
(* cycles - whatever init and the three drivers returned.                  *)
(***************************************************************************)
C13_SensorLoopNeverEnds ==
    /\ [](sPc \in SensorAwaitPcs \cup {"update_lock", "update_assign"})
    /\ [](sPc = "poll_timer" =>
            /\ cycles >= 1
            /\ sDeadline = published.last_updated + polling_interval)
    /\ []((sPc = "pms_read" /\ cycles >= 1) =>
            data.last_updated >= published.last_updated + polling_interval)
    /\ \A k \in 0..(MaxCycles - 1) :
          (cycles = k) ~> (cycles = k + 1 /\ sPc = "poll_timer")

\* init failed, then two cycles in which every line failed, and the task is
\* in its polling wait again
C13_Witness ==
    /\ cycles = MaxCycles
    /\ sPc = "poll_timer"
    /\ initResult.kind \notin {"Pending", "None"}
    /\ ~pmsRes.ok /\ ~sgpRes.ok /\ ~s8Res.ok
    /\ store.errors.present
    /\ now >= 900 * 1000 + polling_interval

(***************************************************************************)
(* C14: nothing is assumed about the PM line, whose read may never return. *)
(* The watchdog keeps ticking: the ticks come one by one and the last      *)
(* explored one is reached.           No tick later than sensor_timeout    *)
(* after the published snapshot's timestamp emits a kick.  And if the      *)
(* sensor task is blocked in the PM read from tick k on, for ever, then    *)
(* from tick k + 3 on no kick is emitted ever again (ticks are 60 s apart, *)
(* sensor_timeout is 120 s and the comparison is strict).                  *)
(***************************************************************************)
C14_BlockedSensorStopsKicks ==
    /\ <>(wdTicks = MaxBlockTicks)
    /\ [][wdTicks' # wdTicks => wdTicks' = wdTicks + 1]_vars
    /\ []((wdPc \notin {"ticker", "lock"}
            /\ DurationSince(wdNow, published.last_updated) > sensor_timeout)
           => (pulses = 0 /\ pin = "low"))
    /\ \A k \in 1..(MaxBlockTicks - 3) :
          [](wdTicks >= k => sPc = "pms_read")
             => [](wdTicks >= k + 3 => (pulses = 0 /\ pin = "low"))

\* the sensor task published once and then stayed in the PM read; the link is
\* up, and the first tick later than sensor_timeout after the snapshot ends
\* without a kick
C14_Witness ==
    /\ sPc = "pms_read"
    /\ cycles = 1
    /\ wdTicks = MaxBlockTicks
    /\ wdPc = "end"
    /\ tickUp
    /\ ~healthy
    /\ pulses = 0
    /\ DurationSince(wdNow, published.last_updated) > sensor_timeout
    /\ DurationSince(wdNow, published.last_updated) <= sensor_timeout + tick_interval

(***************************************************************************)
(* PM frames as the specification describes them, read off the byte stream *)
(* itself.                                                                 *)
(***************************************************************************)
\* the 32 bytes at p with sync and length set right and the checksum set to
\* the sum of sync, length and payload bytes modulo 65536
Repaired(s, p) ==
    LET f == Window(s, p, 32)
        sum == (66 + 77 + 0 + 28 + PayloadSum[SubSeq(f, 5, 30), 26]) % 65536
    IN  [i \in 1..32 |-> IF i = 1 THEN 66 ELSE IF i = 2 THEN 77
                         ELSE IF i = 3 THEN 0 ELSE IF i = 4 THEN 28
                         ELSE IF i = 31 THEN sum \div 256
                         ELSE IF i = 32 THEN sum % 256 ELSE f[i]]

\* the sync, length and checksum bytes of the 32 bytes at p that are wrong
BadFields(s, p) == {i \in {1, 2, 3, 4, 31, 32} : StreamByte(s, p + i - 1) # Repaired(s, p)[i]}

WellFormedAt(s, p) == BadFields(s, p) = {}

\* the big-endian word at byte offset off of the frame at p
WordAt(s, p, off) == StreamByte(s, p + off) * 256 + StreamByte(s, p + off + 1)

\* the readings of the frame at p (temperature and humidity in tenths)
FieldsAt(s, p) ==
    [pm1_ae |-> WordAt(s, p, 10), pm25_ae |-> WordAt(s, p, 12),
     pm10_ae |-> WordAt(s, p, 14), pm03_count |-> WordAt(s, p, 16),
     pm05_count |-> WordAt(s, p, 18), pm10_count |-> WordAt(s, p, 20),
     pm25_count |-> WordAt(s, p, 22),
     temp |-> IF WordAt(s, p, 24) >= 32768 THEN WordAt(s, p, 24) - 65536
              ELSE WordAt(s, p, 24),
     humidity |-> WordAt(s, p, 26)]

(***************************************************************************)
(* C15: on a stream that starts with a well-formed frame (and a UART whose *)
(* reads succeed), read() returns Ok after one attempt, having taken       *)
(* exactly 32 bytes, and each field is the big-endian word at its offset   *)
(* in that frame, the temperature word read as signed.                     *)
(***************************************************************************)
C15_FirstFrameDecoded ==
    (pmsOut.done /\ uart.faults = 0 /\ WellFormedAt(uart, 1))
        => /\ pmsOut.ok
           /\ attempts = 1
           /\ rxCount = 32
           /\ pmsOut.val = FieldsAt(uart, 1)

\* the all-ones frame has been decoded: 65535 everywhere, temperature -0.1
C15_Witness ==
    /\ pmsOut.done /\ pmsOut.ok
    /\ uart.faults = 0
    /\ WellFormedAt(uart, 1)
    /\ attempts = 1
    /\ pmsOut.val.pm1_ae = 65535
    /\ pmsOut.val.temp = -1
    /\ pmsOut.val.humidity = 65535

(***************************************************************************)
(* C16: one read() makes at most MAX_SYNC_ATTEMPTS attempts, one at a      *)
(* time; it goes on only while every attempt so far has failed; it returns *)
(* Ok with the values of the first attempt that succeeds; it returns       *)
(* MaxAttemptsExceeded, and no other error, exactly when 2048 attempts     *)
(* have been made and all failed; and it always returns.                   *)
(***************************************************************************)
C16_AttemptBudget ==
    /\ [](attempts <= MAX_SYNC_ATTEMPTS)
    /\ [](drvPc = "pms" => (attempts = 0 \/ ~lastTry.ok))
    /\ [][attempts' # attempts =>
            (drvPc = "pms" /\ attempts' = attempts + 1)]_vars
    /\ []((pmsOut.done /\ pmsOut.ok) =>
            /\ lastTry.ok
            /\ pmsOut.val = lastTry.val
            /\ attempts >= 1)
    /\ []((pmsOut.done /\ ~pmsOut.ok) =>
            /\ pmsOut.err = "MaxAttemptsExceeded"
            /\ attempts = MAX_SYNC_ATTEMPTS
            /\ ~lastTry.ok)
    /\ []((drvPc = "done" /\ uart # NoStream) => pmsOut.done)
    /\ [](uart # NoStream => <>pmsOut.done)

\* 2047 zero bytes, then a frame: the last attempt of the budget decodes it
C16_Witness ==
    /\ pmsOut.done /\ pmsOut.ok
    /\ attempts = MAX_SYNC_ATTEMPTS
    /\ rxCount = MAX_SYNC_ATTEMPTS - 1 + 32

(***************************************************************************)
(* C17: the stream is one frame with exactly one wrong byte in its sync,   *)
(* length or checksum field, followed by well-formed frames.  read() never *)
(* returns the error of an attempt: it returns the values of one of the    *)
(* frames that follow, or MaxAttemptsExceeded after exactly 2048 attempts. *)
(***************************************************************************)
C17_CorruptedFrameSkipped ==
    (/\ pmsOut.done
     /\ uart.faults = 0
     /\ Len(uart.head) = 32 /\ Len(uart.loop) = 32
     /\ Cardinality(BadFields(uart, 1)) = 1
     /\ WellFormedAt(uart, 33))
        => \/ /\ pmsOut.ok
              /\ rxPos >= 65
              /\ (rxPos - 1) % 32 = 0
              /\ WellFormedAt(uart, rxPos - 32)
              /\ pmsOut.val = FieldsAt(uart, rxPos - 32)
           \/ /\ ~pmsOut.ok
              /\ pmsOut.err = "MaxAttemptsExceeded"
              /\ attempts = MAX_SYNC_ATTEMPTS

\* a wrong length byte; the frame after it was lost as well, the third one
\* has been decoded
C17_Witness ==
    /\ pmsOut.done /\ pmsOut.ok
    /\ uart.faults = 0
    /\ Len(uart.head) = 32 /\ Len(uart.loop) = 32
    /\ BadFields(uart, 1) = {4}
    /\ WellFormedAt(uart, 33)
    /\ rxPos = 97
    /\ pmsOut.val = FieldsAt(uart, 65)

(***************************************************************************)
(* C18: the stream is k bytes of noise that do not contain the two sync    *)
(* bytes in a row, then a well-formed frame.  read() returns that frame's  *)
(* values, having taken exactly the noise and that frame: no failed        *)
(* attempt takes the frame's first sync byte.                              *)
(***************************************************************************)
C18_ByteByByteResync ==
    \A k \in 1..MaxGarbage :
        (/\ pmsOut.done
         /\ uart.faults = 0
         /\ Len(uart.head) = k + 32
         /\ \A i \in 1..(k - 1) :
              ~(uart.head[i] = 66 /\ uart.head[i + 1] = 77)
         /\ WellFormedAt(uart, k + 1))
            => /\ pmsOut.ok
               /\ rxCount = k + 32
               /\ pmsOut.val = FieldsAt(uart, k + 1)

(***************************************************************************)
(* C19: get_co2 returns WriteError when the write fails, else ReadError    *)
(* when the read fails, else InvalidHeader when byte 0 is not 0xFE or byte *)
(* 1 not 0x04 or byte 2 not 0x02 (whatever the CRC), else ChecksumError    *)
(* when the CRC-16 of bytes 0..4 differs from byte 6 * 256 + byte 5, else  *)
(* Ok(byte 3 * 256 + byte 4).                                              *)
(***************************************************************************)
C19_Co2ResponseChecks ==
    s8Out.done =>
        LET buf == s8In.buf
            result(ok, co2, err) ==
                [done |-> TRUE, ok |-> ok, co2 |-> co2, err |-> err]
        IN  s8Out =
              IF ~s8In.write_ok THEN result(FALSE, 0, "WriteError")
              ELSE IF ~s8In.read_ok THEN result(FALSE, 0, "ReadError")
              ELSE IF buf[1] # 254 \/ buf[2] # 4 \/ buf[3] # 2
                  THEN result(FALSE, 0, "InvalidHeader")
              ELSE IF crc16_modbus(<<buf[1], buf[2], buf[3], buf[4], buf[5]>>)
                        # buf[7] * 256 + buf[6]
                  THEN result(FALSE, 0, "ChecksumError")
              ELSE result(TRUE, buf[4] * 256 + buf[5], "None")

\* a response with a wrong address byte and no CRC: InvalidHeader
C19_Witness ==
    /\ s8Out.done
    /\ s8In.write_ok /\ s8In.read_ok
    /\ s8In.buf = <<1, 4, 2, 1, 144, 0, 0>>
    /\ s8Out.err = "InvalidHeader"

(***************************************************************************)
(* C20: the bytes get_co2 writes are FE 04 00 03 00 01 D5 C5, since        *)
(* crc16_modbus(FE 04 00 03 00 01) = 0xC5D5; crc8(BE EF) = 0x92 and        *)
(* crc8(D4 00) = 0xC6.                                                     *)
(***************************************************************************)
C20_KnownChecksums ==
    /\ tx # << >> => tx = <<254, 4, 0, 3, 0, 1, 213, 197>>
    /\ (drvPc = "done" /\ crcIn = <<254, 4, 0, 3, 0, 1>>) => crcOut.crc16 = 50645
    /\ (drvPc = "done" /\ crcIn = <<190, 239>>) => crcOut.crc8 = 146
    /\ (drvPc = "done" /\ crcIn = <<212, 0>>) => crcOut.crc8 = 198

\* the request is on the wire and the sensor's answer has been accepted
C20_Witness ==
    /\ tx = <<254, 4, 0, 3, 0, 1, 213, 197>>
    /\ s8Out.done /\ s8Out.ok
    /\ s8Out.co2 = 400


(***************************************************************************)
(* The gas driver on its own: conversions, defaults, state, self-test.     *)
(***************************************************************************)
\* C21: for whole-number inputs, humidity_to_ticks(h) is
\* floor(min(max(h, 0), 100) * 65535 / 100) and temperature_to_ticks(t) is
\* floor((min(max(t, -45), 130) + 45) * 65535 / 175); an input outside the
\* range gives the ticks of the range bound, the result fits in 16 bits,
\* and no smaller input gives more ticks.
C21_TickConversions ==
    (drvPc = "done" /\ ticksIn \in TickInputs) =>
        LET h == ticksIn.humidity \div 10
            t == ticksIn.temp \div 10
            hc == IF h < 0 THEN 0 ELSE IF h > 100 THEN 100 ELSE h
            tc == IF t < -45 THEN -45 ELSE IF t > 130 THEN 130 ELSE t
        IN  /\ ticksOut.humidity = (hc * 65535) \div 100
            /\ ticksOut.temp = ((tc + 45) * 65535) \div 175
            /\ ticksOut.humidity \in 0..65535
            /\ ticksOut.temp \in 0..65535
            /\ h <= 0 => ticksOut.humidity = 0
            /\ h >= 100 => ticksOut.humidity = 65535
            /\ t <= -45 => ticksOut.temp = 0
            /\ t >= 130 => ticksOut.temp = 65535
            /\ \A o \in TickInputs :
                /\ o.humidity <= ticksIn.humidity =>
                       humidity_to_ticks(o.humidity) <= ticksOut.humidity
                /\ o.temp <= ticksIn.temp =>
                       temperature_to_ticks(o.temp) <= ticksOut.temp

\* 150 % RH was converted, to the ticks of 100 % RH
C21_Witness ==
    /\ drvPc = "done"
    /\ ticksIn = [humidity |-> 1500, temp |-> 250]
    /\ ticksOut.humidity = 65535

\* C22: a measurement compensated with 50 % RH and 25 C puts the same
\* bytes on the bus as one without compensation arguments, which uses
\* DEFAULT_RH_TICKS and DEFAULT_TEMP_TICKS.
C22_DefaultsAreFiftyPercent25C ==
    ( /\ gasLog.op = "measure_indices"
      /\ gasLog.err # Sgp41Error("NotInitialized", 0)
      /\ gasLog.humidity = SomeF(500)
      /\ gasLog.temp = SomeF(250) ) =>
        gasLog.tx = MeasureBuffer(NoneF, NoneF)

\* C23: after every heater_off call, whatever it returned, the driver is
\* not initialized, and a measure_indices call on a driver that is not
\* initialized returns NotInitialized.
C23_HeaterOffUninitializes ==
    /\ gasLog.op = "heater_off" => ~gas.initialized
    /\ (gasLog.op = "measure_indices" /\ ~gasLog.before.initialized) =>
           gasLog.err = Sgp41Error("NotInitialized", 0)

\* C24: self_test returns Ok exactly when the response it read has a valid
\* CRC8 and the big-endian result 0xD400; with a valid CRC and another
\* result r it returns SelfTestFailed(r); with an invalid CRC it returns
\* CrcError, whatever the result.
C24_SelfTestVerdict ==
    gasLog.op = "self_test" =>
        /\ gasLog.err = NoSgpError => gasLog.rx # << >>
        /\ gasLog.rx # << >> =>
            LET valid == crc8(<<gasLog.rx[1], gasLog.rx[2]>>) = gasLog.rx[3]
                result == gasLog.rx[1] * 256 + gasLog.rx[2]
            IN  /\ gasLog.err = NoSgpError <=> (valid /\ result = 54272)
                /\ (valid /\ result # 54272) =>
                       gasLog.err = Sgp41Error("SelfTestFailed", result)
                /\ ~valid => gasLog.err = Sgp41Error("CrcError", 0)

\* a failing result arrived under a wrong CRC: CrcError
C24_Witness ==
    /\ gasLog.op = "self_test"
    /\ gasLog.rx = <<75, 0, 0>>
    /\ gasLog.err = Sgp41Error("CrcError", 0)

\* C27: a call changes the VOC and NOx algorithm states only if it is a
\* measure_indices call that returned Ok, and then each state has processed
\* exactly one more sample; a measure_indices call that failed (also with
\* a wrong CRC on the second word only), init, self_test and heater_off
\* leave both as they were.
C27_AlgorithmStatesOnlyOnSuccess ==
    gasLog.n > 0 =>
        /\ IF gasLog.op = "measure_indices" /\ gasLog.err = NoSgpError
           THEN /\ gas.voc_algorithm = gasLog.before.voc_algorithm + 1
                /\ gas.nox_algorithm = gasLog.before.nox_algorithm + 1
           ELSE /\ gas.voc_algorithm = gasLog.before.voc_algorithm
                /\ gas.nox_algorithm = gasLog.before.nox_algorithm
        /\ ( /\ gasLog.op = "measure_indices"
             /\ gasLog.rx # << >>
             /\ \/ crc8(<<gasLog.rx[1], gasLog.rx[2]>>) # gasLog.rx[3]
                \/ crc8(<<gasLog.rx[4], gasLog.rx[5]>>) # gasLog.rx[6] ) =>
               /\ gasLog.err = Sgp41Error("CrcError", 0)
               /\ gas = gasLog.before
        /\ (gasLog.op = "measure_indices" /\ gasLog.rx = << >>) =>
               /\ gasLog.err \in { Sgp41Error("NotInitialized", 0),
                                   Sgp41Error("I2cError", 0) }
               /\ gas = gasLog.before

\* after one processed sample, a response whose second word has a wrong
\* CRC left the states at one sample
C27_Witness ==
    /\ gasLog.op = "measure_indices"
    /\ gasLog.err = Sgp41Error("CrcError", 0)
    /\ crc8(<<gasLog.rx[1], gasLog.rx[2]>>) = gasLog.rx[3]
    /\ gas.voc_algorithm = 1
    /\ gas.nox_algorithm = 1

\* C30: in every sequence of init, self_test, heater_off and measure
\* calls, after an init call that returned an error the driver is not
\* initialized.
C30_FailedInitNotReady ==
    (gasLog.op = "init" /\ gasLog.err # NoSgpError) => ~gas.initialized

(***************************************************************************)
(* The cycle: order of the lines, time stamp.                              *)
(***************************************************************************)
\* C25: within a cycle the lines are accessed in the order PM, gas, CO2
\* and one at a time: while the PM read is awaited neither other line has
\* been called; the gas I2C exchange runs only after the PM read has
\* returned and before get_co2 is called; the CO2 request is written only
\* after measure_indices has returned.
C25_LineOrder ==
    /\ sPc = "pms_read" =>
           /\ ~pmsRes.done /\ ~sgpRes.done /\ ~s8Res.done
           /\ sgpCalls = 0 /\ s8Calls = 0
    /\ sPc \in {"gas_write", "gas_delay", "gas_read"} =>
           /\ pmsRes.done /\ ~sgpRes.done /\ ~s8Res.done
           /\ pmsCalls = 1 /\ sgpCalls = 1 /\ s8Calls = 0
    /\ sPc \in {"s8_write", "s8_read"} =>
           /\ pmsRes.done /\ sgpRes.done /\ ~s8Res.done
           /\ pmsCalls = 1 /\ sgpCalls = 1 /\ s8Calls = 1

\* the CO2 response is awaited after both other lines returned values
C25_Witness ==
    /\ sPc = "s8_read"
    /\ pmsRes.ok
    /\ sgpRes.ok
    /\ callWrites = 1
    /\ callReads = 1

\* C28: the last_updated of the snapshot a cycle publishes is a clock
\* reading taken when all three line reads have returned, not later than
\* the write to the store: where the gas read of the cycle took place it
\* is not earlier than the end of the measurement delay, hence later than
\* the start of the cycle; the store receives exactly that reading.
C28_StampAfterReads ==
    /\ sPc \in {"update_lock", "update_assign"} =>
           /\ pmsRes.done /\ sgpRes.done /\ s8Res.done
           /\ data.last_updated <= now
           /\ callReads = 1 => data.last_updated >= sDeadline
    /\ (sPc = "poll_timer" /\ cyclePubs = 1) =>
           /\ store.last_updated = data.last_updated
           /\ store.last_updated + polling_interval <= sDeadline

\* a snapshot is about to be written whose gas read returned after its
\* delay and whose CO2 read stalled: the stamp is later than both
C28_Witness ==
    /\ sPc = "update_assign"
    /\ callReads = 1
    /\ sgpRes.ok
    /\ data.last_updated > sDeadline

(***************************************************************************)
(* C26: read() returns Ok only with the values of the 32 bytes its last    *)
(* attempt took, and these are a well-formed frame (sync 0x42 0x4D,        *)
(* length 28, matching checksum).  An attempt succeeds exactly when the 32 *)
(* bytes it took are well formed; an attempt that met a wrong sync byte, a *)
(* length other than 28 or a checksum mismatch carries no values and does  *)
(* not end the read with data.                                             *)
(***************************************************************************)
C26_OkOnlyFromWellFormedFrame ==
    /\ (pmsOut.done /\ pmsOut.ok) =>
           /\ lastTry.ok
           /\ lastTry.used = 32
           /\ rxPos >= 33
           /\ WellFormedAt(uart, rxPos - 32)
           /\ pmsOut.val = FieldsAt(uart, rxPos - 32)
    /\ (attempts > 0 /\ lastTry.ok) =>
           /\ pmsOut.done /\ pmsOut.ok
           /\ pmsOut.val = lastTry.val
    /\ (attempts > 0 /\ ~lastTry.ok) =>
           /\ lastTry.val = NoPmsData
           /\ ~pmsOut.ok
           /\ lastTry.err \in {"Read", "FrameLen", "Checksum"}
           /\ lastTry.err = "FrameLen" =>
                  /\ lastTry.used = 4
                  /\ WordAt(uart, rxPos - 4, 0) = 16973
                  /\ WordAt(uart, rxPos - 4, 2) # 28
           /\ lastTry.err = "Checksum" =>
                  /\ lastTry.used = 32
                  /\ BadFields(uart, rxPos - 32) \subseteq {31, 32}
                  /\ BadFields(uart, rxPos - 32) # {}
           /\ (lastTry.err = "Read" /\ lastTry.used > 0) =>
                  /\ lastTry.used \in {1, 2}
                  /\ StreamByte(uart, rxPos - 1)
                         # (IF lastTry.used = 1 THEN 66 ELSE 77)

\* a frame whose checksum high byte was wrong was rejected; the frame
\* after it has been decoded
C26_Witness ==
    /\ pmsOut.done /\ pmsOut.ok
    /\ attempts = 2
    /\ rxPos = 65
    /\ 31 \in BadFields(uart, 1)
    /\ pmsOut.val = FieldsAt(uart, 33)

(***************************************************************************)
(* C29: the watchdog has no latched unhealthy state.  Whatever earlier     *)
(* ticks did, a tick that finds link and config up, the snapshot age       *)
(* within sensor_timeout and the scrape age within metric_scrape_timeout   *)
(* kicks.  Between ticks the task keeps only last_wifi_ok: its other       *)
(* locals are fresh at every tick, and last_wifi_ok is set, to the tick's  *)
(* time, exactly at the ticks that find link and config up.                *)
(***************************************************************************)
C29_NoLatchedUnhealthy ==
    /\ [](( /\ wdPc = "end"
            /\ tickUp
            /\ wdNow - sensor_last_updated <= sensor_timeout
            /\ wdNow - last_scrape * 1000 <= metric_scrape_timeout )
              => (pulses = 1 /\ pin = "low"))
    /\ [](wdPc = "ticker" =>
              (healthy /\ pulses = 0 /\ wdNow = 0
               /\ sensor_last_updated = 0 /\ last_scrape = 0))
    /\ [][ /\ last_wifi_ok' # last_wifi_ok =>
                 (wdPc = "ticker" /\ linkUp /\ configUp)
           /\ (wdPc = "ticker" /\ wdPc' = "lock") =>
                 last_wifi_ok' = IF linkUp /\ configUp THEN wdNow'
                                 ELSE last_wifi_ok ]_vars

\* the fourth tick kicked; the only snapshot published so far was
\* published after the third tick, which therefore found the initial
\* snapshot three minutes old and skipped the kick
C29_Witness ==
    /\ wdPc = "end"
    /\ wdTicks = 4
    /\ pulses = 1
    /\ cycles = 1
    /\ store.last_updated > wdNow - tick_interval
    /\ sensor_last_updated = store.last_updated

(***************************************************************************)
(* C31: the only error read() hands to the Manager is MaxAttemptsExceeded, *)
(* which is the only PM error the Manager can put into a snapshot.  The    *)
(* error of an attempt (Read, FrameLen, Checksum) is dropped and the next  *)
(* attempt made; on a UART whose every read fails, read() makes 2048       *)
(* attempts, takes no byte, and then reports the line failed.              *)
(***************************************************************************)
C31_OnlyMaxAttemptsReachesManager ==
    /\ (pmsOut.done /\ ~pmsOut.ok) =>
           /\ pmsOut.err = "MaxAttemptsExceeded"
           /\ attempts = MAX_SYNC_ATTEMPTS
           /\ [ok |-> FALSE, val |-> pmsOut.val, err |-> pmsOut.err]
                  \in PmsResults
    /\ (attempts > 0 /\ attempts < MAX_SYNC_ATTEMPTS /\ ~lastTry.ok) =>
           /\ lastTry.err \in {"Read", "FrameLen", "Checksum"}
           /\ drvPc = "pms"
           /\ ~pmsOut.done
    /\ (pmsOut.done /\ uart.faults = MAX_SYNC_ATTEMPTS) =>
           /\ ~pmsOut.ok
           /\ attempts = MAX_SYNC_ATTEMPTS
           /\ rxCount = 0
           /\ lastTry.err = "Read"

\* every read of the UART failed: 2048 attempts, then MaxAttemptsExceeded
C31_Witness ==
    /\ pmsOut.done
    /\ uart.faults = MAX_SYNC_ATTEMPTS
    /\ attempts = MAX_SYNC_ATTEMPTS
    /\ pmsOut.err = "MaxAttemptsExceeded"
    /\ rxCount = 0

(***************************************************************************)
(* C32: the kick output is low whenever the watchdog task is suspended (at *)
(* its ticker, so also before the first tick, or at the snapshot lock) and *)
(* whenever another task, the network or a timer takes a step.  While the  *)
(* output is high the watchdog task is between set_high and set_low, which *)
(* is no suspension point: the only steps are its blocking delay of        *)
(* kick_duration_ms and its set_low.                                       *)
(***************************************************************************)
C32_KickLowWhileOthersRun ==
    /\ [](WdSuspended => pin = "low")
    /\ [](pin = "high" =>
             (wdPc \in {"delay", "set_low"} /\ ~CanRunSensor
              /\ \A i \in WebTasks : ~CanRunWeb(i)))
    /\ [][pin = "high" =>
             /\ sensorVars' = sensorVars
             /\ webVars' = webVars
             /\ netVars' = netVars
             /\ store' = store
             /\ last_scrape_secs' = last_scrape_secs
             /\ \/ wdPc = "delay" /\ wdPc' = "set_low" /\ pin' = "high"
                   /\ now' = now + kick_duration_ms
                \/ wdPc = "set_low" /\ wdPc' = "end" /\ pin' = "low"
                   /\ now' = now /\ pulseWidth' = kick_duration_ms]_vars

\* the output is high, the blocking delay is over, and the sensor task,
\* although waiting for a transport operation, has not run
C32_Witness ==
    /\ pin = "high"
    /\ wdPc = "set_low"
    /\ now = highAt + kick_duration_ms
    /\ sPc \in SensorIoPcs

(***************************************************************************)
(* C33: the last-scrape timestamp changes only when a metrics handler      *)
(* answers from a copy with initialized = true; a handler answering from a *)
(* copy with initialized = false leaves it alone.  Hence, once init has    *)
(* failed, no snapshot is initialized, the timestamp stays 0 however often *)
(* the device is scraped, and every tick later than metric_scrape_timeout  *)
(* after the clock's start skips the kick.                                 *)
(***************************************************************************)
C33_ScrapeStampNeedsInitialized ==
    /\ [][last_scrape_secs' # last_scrape_secs =>
             \E i \in WebTasks :
                 /\ webPc[i] = "respond"
                 /\ sensor_data[i].initialized
                 /\ last_scrape_secs' = mNow[i] \div 1000]_vars
    /\ [][\A i \in WebTasks :
             (webPc[i] = "respond" /\ webPc'[i] = "idle"
              /\ ~sensor_data[i].initialized) =>
                 last_scrape_secs' = last_scrape_secs]_vars
    /\ [](initResult.kind \notin {"Pending", "None"} =>
             /\ last_scrape_secs = 0
             /\ ~store.initialized
             /\ \A i \in WebTasks : ~sensor_data[i].initialized)
    /\ []((wdPc = "end" /\ initResult.kind \notin {"Pending", "None"}
           /\ wdNow > metric_scrape_timeout) =>
             (pulses = 0 /\ pin = "low" /\ ~healthy))

\* init failed, snapshots have been published, network and snapshot age are
\* fine at the tick: it skipped the kick on the scrape age alone
C33_Witness ==
    /\ wdPc = "end"
    /\ initResult.kind \notin {"Pending", "None"}
    /\ cycles = MaxCycles
    /\ wdNow > metric_scrape_timeout
    /\ ~WifiBadAtTick
    /\ ~SensorsBadAtTick
    /\ pulses = 0

(***************************************************************************)
(* C34: every completed cycle, also one in which all three lines failed,   *)
(* leaves in the store a snapshot whose last_updated is the time of its    *)
(* completion.  The watchdog's verdict looks at that time only, never at   *)
(* the errors of the snapshot: a tick is healthy exactly when network,     *)
(* snapshot age and scrape age are in order, so a snapshot not older than  *)
(* sensor_timeout never makes a tick unhealthy, whatever its lines did.    *)
(***************************************************************************)
C34_FailedCyclesKeepSnapshotFresh ==
    /\ (sPc = "poll_timer" /\ cyclePubs = 1) =>
           /\ store = published
           /\ store.last_updated = sDeadline - polling_interval
           /\ store.last_updated <= now
    /\ wdPc = "decide" =>
           (healthy <=> ( /\ ~WifiBadAtTick
                          /\ wdNow - store.last_updated <= sensor_timeout
                          /\ ~ScrapeBadAtTick ))
    /\ ( /\ wdPc = "end"
         /\ store.errors.present
         /\ store.errors.pms # "None"
         /\ store.errors.sgp # NoSgpError
         /\ store.errors.s8 # "None"
         /\ wdNow - store.last_updated <= sensor_timeout
         /\ ~WifiBadAtTick /\ ~ScrapeBadAtTick ) => pulses = 1

\* a tick has kicked on a snapshot in which all three lines failed
C34_Witness ==
    /\ wdPc = "end"
    /\ pulses = 1
    /\ store.errors.pms = "MaxAttemptsExceeded"
    /\ store.errors.sgp # NoSgpError
    /\ store.errors.s8 # "None"
    /\ cycles = MaxCycles

====================================================================
